---- MODULE Spec2Model ----
(***************************************************************************)
(* Model of the pulse storage engine (2389-research/pulse): the journal    *)
(* store (dual root, markdown files with YAML frontmatter), the social     *)
(* store, the record codec and the atomic write discipline.                *)
(*                                                                         *)
(* Text is modelled as sequences of one-character strings, paths as        *)
(* sequences of path segments, instants as integers counting microseconds  *)
(* on a scaled-down calendar (MicrosPerSec, SecsPerDay).                   *)
(*                                                                         *)
(* The last part models the setup wizard (internal/tui), a state machine   *)
(* driven by key presses and by the results of its validation calls.       *)
(***************************************************************************)
EXTENDS Integers, Sequences, FiniteSets, TLC

VARIABLES
    procs,      \* the write each thread of control has in progress
    cwd,        \* working directory of the process (path)
    tz,         \* offset of the local time zone from UTC, in seconds
    now,        \* wall clock (time.Now), microseconds since the epoch, UTC
    fs,         \* file system: function from absolute path to file content
    serial,     \* number of identifiers handed out by uuid.New so far
    written,    \* history: path -> the entry or post last written there (in the
                \* step-by-step writes: the contents handed to the writers of it)
    res,        \* result of the last store operation
    cin,        \* codec check: the entry handed to the codec
    cout,       \* codec check: the entry decoded from the encoded form
    wizard,     \* the setup wizard: its model, the validation calls it has
                \* started, and what the user has done
    server      \* the remote API: whether the configuration names one, and the
                \* posts and journal entries it holds

vars == <<procs, cwd, tz, now, fs, serial, written, res, cin, cout, wizard, server>>

-----------------------------------------------------------------------------
(* Bounds of the model.                                                    *)

MicrosPerSec == 2
SecsPerDay == 2
MaxDay == 2
MaxEntries == 2
MaxLimit == 2
MaxDays == 2
NumShort == 2

MicrosPerDay == MicrosPerSec * SecsPerDay
StartTime == MicrosPerDay
MaxTime == (MaxDay + 1) * MicrosPerDay - 1
TZOffsets == {0 - 1, 0, 1}

Min(a, b) == IF a < b THEN a ELSE b

-----------------------------------------------------------------------------
(* Strings: the functions of package strings that the code uses, on        *)
(* sequences of characters.                                                *)

NL == "\n"
SP == " "
IsSpace(c) == c \in {" ", "\n", "\t", "\r"}

RECURSIVE Concat(_)
Concat(ss) == IF ss = <<>> THEN <<>> ELSE Head(ss) \o Concat(Tail(ss))

HasPrefix(s, p) == Len(s) >= Len(p) /\ SubSeq(s, 1, Len(p)) = p
HasSuffix(s, p) == Len(s) >= Len(p) /\ SubSeq(s, Len(s) - Len(p) + 1, Len(s)) = p
TrimPrefix(s, p) == IF HasPrefix(s, p) THEN SubSeq(s, Len(p) + 1, Len(s)) ELSE s

\* strings.Split(s, sep) for a one-character separator
RECURSIVE SplitFrom(_, _, _)
SplitFrom(s, sep, acc) ==
    IF s = <<>> THEN <<acc>>
    ELSE IF Head(s) = sep THEN <<acc>> \o SplitFrom(Tail(s), sep, <<>>)
    ELSE SplitFrom(Tail(s), sep, Append(acc, Head(s)))
Split(s, sep) == SplitFrom(s, sep, <<>>)

RECURSIVE Join(_, _)
Join(parts, sep) ==
    IF parts = <<>> THEN <<>>
    ELSE IF Len(parts) = 1 THEN parts[1]
    ELSE parts[1] \o sep \o Join(Tail(parts), sep)

RECURSIVE TrimLeft(_)
TrimLeft(s) == IF s # <<>> /\ IsSpace(Head(s)) THEN TrimLeft(Tail(s)) ELSE s
RECURSIVE TrimRight(_)
TrimRight(s) ==
    IF s # <<>> /\ IsSpace(s[Len(s)]) THEN TrimRight(SubSeq(s, 1, Len(s) - 1)) ELSE s
TrimSpace(s) == TrimRight(TrimLeft(s))

\* strings.Fields: the maximal runs of non-space characters
RECURSIVE FieldsFrom(_, _)
FieldsFrom(s, acc) ==
    IF s = <<>> THEN (IF acc = <<>> THEN <<>> ELSE <<acc>>)
    ELSE IF IsSpace(Head(s))
         THEN (IF acc = <<>> THEN <<>> ELSE <<acc>>) \o FieldsFrom(Tail(s), <<>>)
         ELSE FieldsFrom(Tail(s), Append(acc, Head(s)))
Fields(s) == FieldsFrom(s, <<>>)

Lower == <<"a","b","c","d","e","f","g","h","i","j","k","l","m",
           "n","o","p","q","r","s","t","u","v","w","x","y","z">>
Upper == <<"A","B","C","D","E","F","G","H","I","J","K","L","M",
           "N","O","P","Q","R","S","T","U","V","W","X","Y","Z">>
ToUpperChar(c) ==
    IF \E i \in 1..Len(Lower) : Lower[i] = c
    THEN Upper[CHOOSE i \in 1..Len(Lower) : Lower[i] = c] ELSE c
ToLowerChar(c) ==
    IF \E i \in 1..Len(Upper) : Upper[i] = c
    THEN Lower[CHOOSE i \in 1..Len(Upper) : Upper[i] = c] ELSE c
ToLower(s) == [i \in 1..Len(s) |-> ToLowerChar(s[i])]

-----------------------------------------------------------------------------
(* Package models: section names and the heading conversions.              *)

feelings == <<"f","e","e","l","i","n","g","s">>
project_notes == <<"p","r","o","j","e","c","t","_","n","o","t","e","s">>
user_context == <<"u","s","e","r","_","c","o","n","t","e","x","t">>
technical_insights ==
    <<"t","e","c","h","n","i","c","a","l","_","i","n","s","i","g","h","t","s">>
world_knowledge == <<"w","o","r","l","d","_","k","n","o","w","l","e","d","g","e">>

ValidSections ==
    <<feelings, project_notes, user_context, technical_insights, world_knowledge>>

\* mutant: every name that is not empty is a section name
IsValidSection_Any(name) == Len(name) > 0

IsValidSection(name) == \E i \in 1..Len(ValidSections) : ValidSections[i] = name

Capitalise(part) ==
    IF Len(part) > 0 THEN <<ToUpperChar(part[1])>> \o SubSeq(part, 2, Len(part)) ELSE part

SectionTitle(name) ==
    LET parts == Split(name, "_")
    IN  Join([i \in 1..Len(parts) |-> Capitalise(parts[i])], <<SP>>)

SectionKey(heading) == Join(Fields(ToLower(heading)), <<"_">>)

-----------------------------------------------------------------------------
(* Journal body codec: renderSections and parseSections.                   *)

HeadingMark == <<"#", "#", " ">>

\* fmt.Sprintf("\n## %s\n%s\n", title, content)
SectionBlock(title, content) == <<NL>> \o HeadingMark \o title \o <<NL>> \o content \o <<NL>>

renderSections(sections) ==
    Concat([i \in 1..Len(ValidSections) |->
        IF ValidSections[i] \notin DOMAIN sections \/ sections[ValidSections[i]] = <<>>
        THEN <<>>
        ELSE SectionBlock(SectionTitle(ValidSections[i]), sections[ValidSections[i]])])

Put(m, k, v) == [x \in DOMAIN m \cup {k} |-> IF x = k THEN v ELSE m[x]]
EmptyMap == [x \in {} |-> <<>>]

\* the loop of parseSections over the lines, from line i, with the loop's
\* locals sections, currentSection, currentContent
RECURSIVE ParseLines(_, _, _, _, _)
ParseLines(lines, i, sections, currentSection, currentContent) ==
    IF i > Len(lines)
    THEN IF currentSection # <<>>
         THEN Put(sections, currentSection, TrimSpace(currentContent))
         ELSE sections
    ELSE IF HasPrefix(lines[i], HeadingMark)
    THEN ParseLines(lines, i + 1,
            IF currentSection # <<>>
            THEN Put(sections, currentSection, TrimSpace(currentContent))
            ELSE sections,
            SectionKey(TrimPrefix(lines[i], HeadingMark)), <<>>)
    ELSE IF currentSection # <<>>
    THEN ParseLines(lines, i + 1, sections, currentSection,
            currentContent \o lines[i] \o <<NL>>)
    ELSE ParseLines(lines, i + 1, sections, currentSection, currentContent)

parseSections(body) == ParseLines(Split(body, NL), 1, EmptyMap, <<>>, <<>>)

-----------------------------------------------------------------------------
(* Time: instants are microseconds since the epoch (UTC); a time.Time made  *)
(* by time.Now carries the local zone, so Format renders local wall time.   *)

LocalTime(t) == t + tz * MicrosPerSec

\* t.Format("2006-01-02"): the calendar date in t's zone
DateName(day) == "D" \o ToString(day)
FormatDate(t) == DateName(LocalTime(t) \div MicrosPerDay)

\* t.Format("15-04-05-000000"): hour-minute-second in t's zone; the layout's
\* "000000" follows no '.' or ',' and so is literal text, not a fraction
FormatClock(t) == "T" \o ToString((LocalTime(t) % MicrosPerDay) \div MicrosPerSec) \o "-000000"

\* time.Parse("2006-01-02", name): midnight UTC of that date, or an error
DayNumbers == 0..(MaxDay + 1)
IsDateName(name) == \E d \in DayNumbers : DateName(d) = name
ParseDate(name) == (CHOOSE d \in DayNumbers : DateName(d) = name) * MicrosPerDay

\* t.Truncate(24 * time.Hour): rounds the absolute time down, to midnight UTC
TruncateDay(t) == (t \div MicrosPerDay) * MicrosPerDay

\* t.AddDate(0, 0, -days)
AddDays(t, days) == t + days * MicrosPerDay

\* mdstore.FormatTime / mdstore.ParseTime: the timestamp text of the metadata block
FormatTime(t) == <<t \div MicrosPerDay, t % MicrosPerDay>>
IsTimeText(s) == Len(s) = 2
ParseTime(s) == s[1] * MicrosPerDay + s[2]

-----------------------------------------------------------------------------
(* Identifiers: a UUID is its first eight hex digits (short) and the rest;  *)
(* uuid.New never repeats an identifier, so the rest is a serial number.    *)

IDString(id) == <<id.short, id.serial>>
IsUUIDText(s) == Len(s) = 2
ParseUUID(s) == [short |-> s[1], serial |-> s[2]]
ShortID(id) == ToString(IDString(id)[1])
NewIDs == {[short |-> h, serial |-> serial + 1] : h \in 1..NumShort}

-----------------------------------------------------------------------------
(* Paths: sequences of segments; filepath.Abs joins a relative path to the  *)
(* working directory and cleans it lexically.                               *)

RECURSIVE CleanFrom(_, _)
CleanFrom(segs, acc) ==
    IF segs = <<>> THEN acc
    ELSE IF Head(segs) = "." \/ Head(segs) = "" THEN CleanFrom(Tail(segs), acc)
    ELSE IF Head(segs) = ".."
         THEN CleanFrom(Tail(segs), IF acc = <<>> THEN acc ELSE SubSeq(acc, 1, Len(acc) - 1))
         ELSE CleanFrom(Tail(segs), Append(acc, Head(segs)))

Abs(p) == CleanFrom(IF p.abs THEN p.segs ELSE cwd \o p.segs, <<>>)

Home == <<"home">>
Work == <<"work">>
JournalDir == ".private-journal"

\* config.GetJournalProjectPath / GetJournalUserPath with no override
projectPath == cwd \o <<JournalDir>>
userPath == Home \o <<JournalDir>>

\* strings.HasPrefix(absPath, absRoot + string(filepath.Separator)) on clean
\* absolute paths: the root's segments and at least one more
UnderRoot(absPath, absRoot) ==
    /\ Len(absPath) > Len(absRoot)
    /\ SubSeq(absPath, 1, Len(absRoot)) = absRoot

\* file names ending in ".md" (strings.HasSuffix(name, ".md"))
MdName(clock, short) == clock \o "-" \o short \o ".md"
MdNames ==
    {MdName("T" \o ToString(s) \o "-000000", ToString(h)) :
        s \in 0..(SecsPerDay - 1), h \in 1..NumShort} \cup {"notes.md"}
IsMdName(name) == name \in MdNames

\* the file system as the code sees it
Exists(path) == path \in DOMAIN fs
IsDir(path) == \E q \in DOMAIN fs : Len(q) > Len(path) /\ SubSeq(q, 1, Len(path)) = path
\* os.ReadDir(dir): names of the children
DirNames(dir) == {q[Len(dir) + 1] : q \in {x \in DOMAIN fs : UnderRoot(x, dir)}}
WithFile(path, content) == [x \in DOMAIN fs \cup {path} |-> IF x = path THEN content ELSE fs[x]]

-----------------------------------------------------------------------------
(* Metadata block: mdstore.RenderFrontmatter / mdstore.ParseFrontmatter.    *)
(* A file is its metadata block (has = FALSE when the file has none) and    *)
(* the body text that follows it.                                           *)

RenderFrontmatter(fm, body) == [has |-> TRUE, fm |-> fm, body |-> body]
ParseFrontmatter(content) == content

\* os.ReadFile(path) returns the bytes (the file can be read), and
\* yaml.Unmarshal decodes the metadata block they hold
Readable(content) == "unreadable" \notin DOMAIN content
ParsesAsYAML(content) == "yamlError" \notin DOMAIN content

NoEntry == [none |-> TRUE]
Failure(kind) == [err |-> kind, entry |-> NoEntry]
Success(e) == [err |-> "", entry |-> e]

-----------------------------------------------------------------------------
(* Journal store.                                                           *)

\* the types of the entries written: the two the tools use, and another one
\* (written as the first entry only, to bound the stores explored)
ToolTypes == {"project", "user"}
EntryTypes == ToolTypes \cup {"note"}

\* mutant: only the entries of type user go to the user root
EntryPath_UserTypeOnly(entry) ==
    (IF entry.Type = "user" THEN userPath ELSE projectPath)
        \o <<FormatDate(entry.CreatedAt),
             MdName(FormatClock(entry.CreatedAt), ShortID(entry.ID))>>

\* the path WriteEntry computes for an entry
EntryPath(entry) ==
    (IF entry.Type = "project" THEN projectPath ELSE userPath)
        \o <<FormatDate(entry.CreatedAt),
             MdName(FormatClock(entry.CreatedAt), ShortID(entry.ID))>>

\* the bytes WriteEntry hands to the atomic writer
EntryContent(entry) ==
    RenderFrontmatter(
        [ID |-> IDString(entry.ID), Date |-> FormatTime(entry.CreatedAt), Type |-> entry.Type],
        renderSections(entry.Sections))

\* mutant: a date that does not parse is taken as the zero time
parseJournalEntry_ZeroTime(path, content) ==
    LET c == ParseFrontmatter(content)
    IN  IF ~c.has THEN Failure("InvalidFormat")
        ELSE IF ~ParsesAsYAML(c) THEN Failure("InvalidFormat")
        ELSE IF ~IsUUIDText(c.fm.ID) THEN Failure("InvalidFormat")
        ELSE Success([ID |-> ParseUUID(c.fm.ID),
                      Sections |-> parseSections(c.body),
                      CreatedAt |-> IF IsTimeText(c.fm.Date) THEN ParseTime(c.fm.Date) ELSE 0,
                      FilePath |-> path,
                      Type |-> c.fm.Type])

parseJournalEntry(path, content) ==
    LET c == ParseFrontmatter(content)
    IN  IF ~c.has THEN Failure("InvalidFormat")
        ELSE IF ~ParsesAsYAML(c) THEN Failure("InvalidFormat")
        ELSE IF ~IsUUIDText(c.fm.ID) THEN Failure("InvalidFormat")
        ELSE IF ~IsTimeText(c.fm.Date) THEN Failure("InvalidFormat")
        ELSE Success([ID |-> ParseUUID(c.fm.ID),
                      Sections |-> parseSections(c.body),
                      CreatedAt |-> ParseTime(c.fm.Date),
                      FilePath |-> path,
                      Type |-> c.fm.Type])

\* mutant: the prefix test without the path separator, which lets the root
\* itself through
InsideRoots_NoSeparator(absPath) ==
    \/ Len(absPath) >= Len(projectPath) /\ SubSeq(absPath, 1, Len(projectPath)) = projectPath
    \/ Len(absPath) >= Len(userPath) /\ SubSeq(absPath, 1, Len(userPath)) = userPath

\* the containment test of ReadEntry
InsideRoots(absPath) == UnderRoot(absPath, projectPath) \/ UnderRoot(absPath, userPath)

\* ReadEntry(path): the error, the entry and the file it opened (if any)
ReadEntryResult(path) ==
    LET absPath == Abs(path)
    IN  IF ~InsideRoots(absPath)
        THEN [err |-> "PathViolation", entry |-> NoEntry, opened |-> <<>>]
        ELSE IF ~Exists(absPath) \/ ~Readable(fs[absPath])
        THEN [err |-> "IOError", entry |-> NoEntry, opened |-> <<absPath>>]
        ELSE LET r == parseJournalEntry(absPath, fs[absPath])
             IN  [err |-> r.err, entry |-> r.entry, opened |-> <<absPath>>]

\* the zero time.Time (no cutoff) or now minus the days
Cutoff(days) ==
    IF days > 0 THEN [zero |-> FALSE, t |-> AddDays(now, 0 - days)] ELSE [zero |-> TRUE, t |-> 0]

\* the date-bucket directories of root that the scan enters
ScannedDirs(root, cutoff) ==
    {d \in DirNames(root) :
        /\ IsDir(root \o <<d>>)
        /\ \/ cutoff.zero
           \/ IsDateName(d) /\ ~(ParseDate(d) < TruncateDay(cutoff.t))}

\* the .md files of the scanned directories
ScannedFiles(root, cutoff) ==
    {p \in DOMAIN fs :
        /\ UnderRoot(p, root)
        /\ Len(p) = Len(root) + 2
        /\ p[Len(root) + 1] \in ScannedDirs(root, cutoff)
        /\ IsMdName(p[Len(p)])}

\* mutant: a file that does not decode ends the scan of the root with nothing
listEntriesInRoot_StopsAtFailure(root, cutoff) ==
    IF \E q \in ScannedFiles(root, cutoff) :
            ~Readable(fs[q]) \/ parseJournalEntry(q, fs[q]).err # ""
    THEN {}
    ELSE {parseJournalEntry(p, fs[p]).entry : p \in ScannedFiles(root, cutoff)}

\* listEntriesInRoot: the entries of the files that decode
listEntriesInRoot(root, cutoff) ==
    {parseJournalEntry(p, fs[p]).entry :
        p \in {q \in ScannedFiles(root, cutoff) :
                Readable(fs[q]) /\ parseJournalEntry(q, fs[q]).err = ""}}

RECURSIVE SeqOf(_)
SeqOf(S) == IF S = {} THEN <<>> ELSE LET x == CHOOSE y \in S : TRUE IN <<x>> \o SeqOf(S \ {x})

\* the roots ListEntries scans for an entry type, in the order it scans them
SelectedRoots(entryType) ==
    (IF entryType \in {"both", "user", ""} THEN <<userPath>> ELSE <<>>)
        \o (IF entryType \in {"both", "project", ""} THEN <<projectPath>> ELSE <<>>)

\* entries as appended root by root, before the sort
Collected(entryType, days) ==
    LET roots == SelectedRoots(entryType)
    IN  Concat([i \in 1..Len(roots) |-> SeqOf(listEntriesInRoot(roots[i], Cutoff(days)))])

\* mutant: the comparison of the sort turned around
After_Before(a, b) == a.CreatedAt < b.CreatedAt

\* the less function of the sort: a.CreatedAt.After(b.CreatedAt)
After(a, b) == a.CreatedAt > b.CreatedAt

\* sort.Slice(entries, CreatedAt.After): some permutation in which no entry
\* precedes a more recent one; the order of equal timestamps is not specified
RECURSIVE SortedOrders(_, _)
SortedOrders(entries, idx) ==
    IF idx = {} THEN {<<>>}
    ELSE LET first == {i \in idx : \A j \in idx : ~After(entries[j], entries[i])}
         IN  UNION {{<<entries[i]>> \o rest : rest \in SortedOrders(entries, idx \ {i})} :
                        i \in first}

SortOutcomes(entries) == SortedOrders(entries, 1..Len(entries))

\* if limit > 0 && len(entries) > limit { entries = entries[:limit] }
Truncated(entries, limit) ==
    IF limit > 0 /\ Len(entries) > limit THEN SubSeq(entries, 1, limit) ELSE entries

ListEntriesResults(entryType, limit, days) ==
    {Truncated(s, limit) : s \in SortOutcomes(Collected(entryType, days))}

-----------------------------------------------------------------------------
(* Journal store: the state machine.                                       *)

\* the sections of the entries written: project notes go to a project entry,
\* the other sections to a user entry (as handleProcessThoughts routes them)
SectionsFor(type) ==
    IF type = "project"
    THEN [n \in {project_notes} |-> <<"a", " ", "b">>]
    ELSE [n \in {feelings, world_knowledge} |-> IF n = feelings THEN <<"o", "k">> ELSE <<"x">>]

ListTypes == {"both", "project", "user"}

\* a file outside both roots, holding what looks like a journal entry
OutsidePath == Home \o <<"notes.md">>
OutsideContent ==
    RenderFrontmatter([ID |-> <<1, 0>>, Date |-> FormatTime(0), Type |-> "user"],
                      renderSections([n \in {feelings} |-> <<"x">>]))

NoResult == [op |-> "none"]

\* the setup wizard is not running
NoWizard == [step |-> "none"]

\* no remote API is configured
NoServer == [configured |-> FALSE, posts |-> <<>>, entries |-> <<>>]

\* the threads of control that write files, and a thread with no write begun
Threads == {"journal", "social"}
Idle == [op |-> "none", pc |-> "idle", how |-> "", path |-> <<>>, data |-> NoEntry, n |-> 0]
NoWriters == [t \in Threads |-> Idle]

Init ==
    /\ cwd \in {Home, Work}
    /\ server = NoServer
    /\ wizard = NoWizard
    /\ tz \in TZOffsets
    /\ now = StartTime
    /\ fs = [p \in {OutsidePath} |-> OutsideContent]
    /\ serial = 0
    /\ written = [p \in {} |-> NoEntry]
    /\ res = NoResult
    /\ cin = NoEntry
    /\ cout = NoEntry
    /\ procs = NoWriters

\* the caller takes the result of the last operation
Return ==
    /\ res # NoResult
    /\ res' = NoResult
    /\ UNCHANGED <<procs, cwd, tz, now, fs, serial, written, cin, cout, wizard, server>>

\* the clock advances (a clock that resolves seconds)
Tick ==
    /\ res = NoResult
    /\ now + MicrosPerSec <= MaxTime
    /\ now' = now + MicrosPerSec
    /\ res' = NoResult
    /\ UNCHANGED <<procs, cwd, tz, fs, serial, written, cin, cout, wizard, server>>

\* WriteEntry(entry) for an entry made by models.NewJournalEntry
WriteEntry ==
    /\ res = NoResult
    /\ serial < MaxEntries
    /\ \E id \in NewIDs, type \in (IF serial = 0 THEN EntryTypes ELSE ToolTypes) :
        LET entry == [ID |-> id, Sections |-> SectionsFor(type), CreatedAt |-> now,
                      FilePath |-> <<>>, Type |-> type]
            path == EntryPath(entry)
            stored == [entry EXCEPT !.FilePath = path]
        IN  \/ /\ fs' = WithFile(path, EntryContent(entry))
               /\ written' = Put(written, path, stored)
               /\ res' = [op |-> "WriteEntry", err |-> "", entry |-> stored]
               /\ serial' = serial + 1
            \* mdstore.AtomicWrite fails: no file appears, FilePath is not set
            \* (the identifier of the entry is lost with it)
            \/ /\ res' = [op |-> "WriteEntry", err |-> "IOError", entry |-> entry]
               /\ UNCHANGED <<fs, written, serial>>
    /\ UNCHANGED <<procs, cwd, tz, now, cin, cout, wizard, server>>

\* the paths handed to ReadEntry: every file (inside the roots or not), the
\* roots themselves, relative forms, paths through "..", a missing file
ReadInputs ==
    {[abs |-> TRUE, segs |-> p] : p \in DOMAIN fs}
    \cup {[abs |-> TRUE, segs |-> <<p[1], "..">> \o p] : p \in DOMAIN fs}
    \cup {[abs |-> FALSE, segs |-> SubSeq(p, Len(cwd) + 1, Len(p))] :
            p \in {q \in DOMAIN fs : UnderRoot(q, cwd)}}
    \cup {[abs |-> TRUE, segs |-> r] : r \in {projectPath, userPath}}
    \cup {[abs |-> TRUE, segs |-> r \o <<"..", "notes.md">>] : r \in {projectPath, userPath}}
    \cup {[abs |-> TRUE, segs |-> userPath \o <<DateName(0), "notes.md">>]}
    \cup {[abs |-> FALSE, segs |-> <<"..", "home", "notes.md">>]}

ReadEntry ==
    /\ \/ res = NoResult
       \/ res.op = "ReadEntry" /\ res.result.err = "PathViolation"
    /\ \E path \in ReadInputs :
        res' = [op |-> "ReadEntry", path |-> path, result |-> ReadEntryResult(path),
                afterRejection |-> (res # NoResult)]
    /\ UNCHANGED <<procs, cwd, tz, now, fs, serial, written, cin, cout, wizard, server>>

ListEntries ==
    /\ res = NoResult
    /\ \E entryType \in ListTypes, limit \in 0..MaxLimit, days \in 0..MaxDays :
        \E entries \in ListEntriesResults(entryType, limit, days) :
            res' = [op |-> "ListEntries", entryType |-> entryType, limit |-> limit,
                    days |-> days, err |-> "", entries |-> entries]
    /\ UNCHANGED <<procs, cwd, tz, now, fs, serial, written, cin, cout, wizard, server>>

Next == Tick \/ WriteEntry \/ ReadEntry \/ ListEntries \/ Return

Spec == Init /\ [][Next]_vars

-----------------------------------------------------------------------------
(* Properties of the journal store.                                        *)

\* a path lies strictly below a root: the root's segments, then at least one more
StrictlyBelow(path, root) ==
    \E k \in 1..Len(path) :
        /\ Len(path) = Len(root) + k
        /\ \A i \in 1..Len(root) : path[i] = root[i]

BelowSomeRoot(path) == StrictlyBelow(path, projectPath) \/ StrictlyBelow(path, userPath)

Range(s) == {s[i] : i \in 1..Len(s)}

\* the entries stored (as written) under the roots an entry type selects
StoredUnder(entryType) ==
    {written[p] : p \in {q \in DOMAIN written :
        \E i \in 1..Len(SelectedRoots(entryType)) :
            StrictlyBelow(q, SelectedRoots(entryType)[i])}}

\* C1: ReadEntry of a path whose absolute, cleaned form is not strictly below
\* the project root or the user root fails with the path-violation error and
\* opens no file; no ReadEntry call changes a file, and a path to a stored
\* entry inside a root is read successfully, also right after a rejected call.
C1_ReadEntryStaysInsideRoots ==
    [][(res'.op = "ReadEntry" /\ res' # res) =>
        LET absPath == Abs(res'.path)
            r == res'.result
        IN  /\ fs' = fs
            /\ ~BelowSomeRoot(absPath) =>
                    r.err = "PathViolation" /\ r.opened = <<>> /\ r.entry = NoEntry
            /\ r.opened # <<>> => BelowSomeRoot(r.opened[1])
            /\ (BelowSomeRoot(absPath) /\ absPath \in DOMAIN written) =>
                    r.err = "" /\ r.entry = written[absPath]]_vars

\* C1 witness: a path through ".." that comes back inside a root is read
\* successfully right after a rejected call
C1_Witness ==
    /\ res.op = "ReadEntry"
    /\ res.afterRejection
    /\ res.result.err = ""
    /\ ".." \in Range(res.path.segs)

\* C4 as stated: ListEntries("both", 0, 0) returns the union of the entries of
\* both roots in strictly descending order of creation timestamp (stated for
\* distinct roots, where no entry is listed twice).
C4_StrictlyDescending ==
    (res.op = "ListEntries" /\ res.entryType = "both" /\ res.limit = 0 /\ res.days = 0
        /\ projectPath # userPath) =>
        /\ Range(res.entries) = StoredUnder("both")
        /\ \A i, j \in 1..Len(res.entries) :
            i < j => res.entries[i].CreatedAt > res.entries[j].CreatedAt

\* C4 amended: ListEntries("both", 0, 0) returns exactly the entries stored
\* under the project root and the user root, and no entry precedes a more
\* recent one (entries of equal timestamp come in either order).
C4_UnionNewestFirst ==
    (res.op = "ListEntries" /\ res.entryType = "both" /\ res.limit = 0 /\ res.days = 0) =>
        /\ Range(res.entries) = StoredUnder("both")
        /\ \A i, j \in 1..Len(res.entries) :
            i < j => res.entries[i].CreatedAt >= res.entries[j].CreatedAt

\* C4 witness: a listing of both roots with a project and a user entry of
\* different timestamps
C4_Witness ==
    /\ res.op = "ListEntries" /\ res.entryType = "both" /\ res.limit = 0 /\ res.days = 0
    /\ Len(res.entries) >= 2
    /\ res.entries[1].CreatedAt > res.entries[Len(res.entries)].CreatedAt
    /\ \E i, j \in 1..Len(res.entries) :
        res.entries[i].Type = "project" /\ res.entries[j].Type = "user"

\* C5: with n decodable entries in the selected roots, ListEntries(type, limit, 0)
\* returns min(limit, n) entries when limit > 0 and n entries otherwise, and
\* no returned entry is older than an omitted one.
C5_LimitKeepsMostRecent ==
    (res.op = "ListEntries" /\ res.days = 0) =>
        LET stored == StoredUnder(res.entryType)
            n == Cardinality(stored)
        IN  /\ Len(res.entries) = (IF res.limit > 0 THEN Min(res.limit, n) ELSE n)
            /\ Range(res.entries) \subseteq stored
            /\ \A e \in Range(res.entries) : \A o \in stored \ Range(res.entries) :
                    e.CreatedAt >= o.CreatedAt

\* the calendar day of a date-bucket directory, and of an instant in the local zone
BucketDay(path) == CHOOSE d \in DayNumbers : DateName(d) = path[Len(path) - 1]
LocalDay(t) == LocalTime(t) \div MicrosPerDay

\* C6: with days > 0, ListEntries returns no entry of a bucket dated before the
\* date of now - days, returns (when no limit cuts the list) every entry of the
\* other buckets, and so returns an entry written now.
C6_DaysPrunesByBucketDate ==
    (res.op = "ListEntries" /\ res.days > 0) =>
        LET firstDay == LocalDay(AddDays(now, 0 - res.days))
            stored == StoredUnder(res.entryType)
        IN  /\ \A e \in Range(res.entries) : BucketDay(e.FilePath) >= firstDay
            /\ res.limit = 0 =>
                \A e \in stored :
                    (BucketDay(e.FilePath) >= firstDay \/ e.CreatedAt = now)
                        => e \in Range(res.entries)

\* the root an entry of a type belongs to
RootOfType(type) == IF type = "project" THEN projectPath ELSE userPath

\* C16: WriteEntry stores an entry of type project under the project root and
\* an entry of any other type under the user root; on success the entry's
\* FilePath is the path of the one file the call wrote, which decodes to the
\* entry and is read back by ReadEntry; on failure the error is returned,
\* FilePath stays unset and no file changes.
C16_WriteEntryRootAndFilePath ==
    /\ [][(res = NoResult /\ res'.op = "WriteEntry") =>
            LET e == res'.entry
            IN  IF res'.err = ""
                THEN /\ StrictlyBelow(e.FilePath, RootOfType(e.Type))
                     /\ DOMAIN fs' = DOMAIN fs \cup {e.FilePath}
                     /\ \A p \in DOMAIN fs \ {e.FilePath} : fs'[p] = fs[p]
                     /\ parseJournalEntry(e.FilePath, fs'[e.FilePath]) = Success(e)
                ELSE e.FilePath = <<>> /\ fs' = fs]_vars
    /\ []((res.op = "WriteEntry" /\ res.err = "") =>
            ReadEntryResult([abs |-> TRUE, segs |-> res.entry.FilePath]) =
                [err |-> "", entry |-> res.entry, opened |-> <<res.entry.FilePath>>])

\* C16 witness: an entry of a type other than project and user was stored
\* under the user root, which is not the project root
C16_Witness ==
    /\ res.op = "WriteEntry" /\ res.err = ""
    /\ res.entry.Type \notin ToolTypes
    /\ projectPath # userPath
    /\ StrictlyBelow(res.entry.FilePath, userPath)
    /\ res.entry.FilePath \in DOMAIN fs

\* C18: ListEntries("project", ...) returns only entries stored under the
\* project root, all of type project, and ListEntries("user", ...) only
\* entries stored under the user root, each with the non-project type it was
\* written with.
C18_ListEntriesSelectsRoot ==
    (res.op = "ListEntries" /\ res.entryType \in ToolTypes) =>
        \A e \in Range(res.entries) :
            /\ StrictlyBelow(e.FilePath, RootOfType(res.entryType))
            /\ e.FilePath \in DOMAIN written
            /\ e = written[e.FilePath]
            /\ (res.entryType = "project") = (e.Type = "project")

\* C33: whatever the two roots are, equal or not, no entry appears twice in
\* the result of ListEntries: no two places of the result hold the same
\* identifier or the same file path.
C33_ListsEachEntryOnce ==
    res.op = "ListEntries" =>
        \A i, j \in 1..Len(res.entries) :
            (res.entries[i].ID = res.entries[j].ID
                \/ res.entries[i].FilePath = res.entries[j].FilePath) => i = j

-----------------------------------------------------------------------------
(* Record codec: write an entry, read it back.                             *)

MaxTextLen == 4
TextAlphabet == {"a", " ", "\n", "#"}

RECURSIVE TextsOfLen(_)
TextsOfLen(n) ==
    IF n = 0 THEN {<<>>}
    ELSE {Append(t, c) : t \in TextsOfLen(n - 1), c \in TextAlphabet}

\* the non-empty section texts
CodecTexts == UNION {TextsOfLen(n) : n \in 1..MaxTextLen}

\* section maps with canonical names and non-empty texts
CodecSections ==
    {[n \in {name} |-> t] : name \in {feelings, project_notes}, t \in CodecTexts}
    \cup {[n \in {feelings, world_knowledge} |-> IF n = feelings THEN t ELSE <<"o", "k">>] :
            t \in CodecTexts}

InitCodec ==
    /\ cwd = Work
    /\ server = NoServer
    /\ wizard = NoWizard
    /\ tz = 0
    /\ now \in {StartTime, StartTime + 1}
    /\ fs = [p \in {} |-> OutsideContent]
    /\ serial = 0
    /\ written = [p \in {} |-> NoEntry]
    /\ res = NoResult
    /\ cin = NoEntry
    /\ cout = NoEntry
    /\ procs = NoWriters

\* WriteEntry of an entry with any of the section maps
CodecWrite ==
    /\ cin = NoEntry
    /\ \E id \in NewIDs, type \in EntryTypes, sections \in CodecSections :
        LET entry == [ID |-> id, Sections |-> sections, CreatedAt |-> now,
                      FilePath |-> <<>>, Type |-> type]
            path == EntryPath(entry)
        IN  /\ fs' = WithFile(path, EntryContent(entry))
            /\ cin' = [entry EXCEPT !.FilePath = path]
    /\ serial' = serial + 1
    /\ UNCHANGED <<procs, cwd, tz, now, written, res, cout, wizard, server>>

\* ReadEntry of the path WriteEntry recorded on the entry
CodecRead ==
    /\ cin # NoEntry
    /\ cout = NoEntry
    /\ cout' = ReadEntryResult([abs |-> TRUE, segs |-> cin.FilePath])
    /\ UNCHANGED <<procs, cwd, tz, now, fs, serial, written, res, cin, wizard, server>>

NextCodec == CodecWrite \/ CodecRead

SpecCodec == InitCodec /\ [][NextCodec]_vars

\* C2: reading back a written entry whose sections have canonical names and
\* non-empty texts gives the same identifier, type, timestamp and section map.
\* Stated here for the texts that have no surrounding white space (which the
\* decoder is documented to trim), where it fails all the same.
C2_RoundTrip ==
    (cout # NoEntry /\ \A n \in DOMAIN cin.Sections : TrimSpace(cin.Sections[n]) = cin.Sections[n]) =>
        /\ cout.err = ""
        /\ cout.entry.ID = cin.ID
        /\ cout.entry.Type = cin.Type
        /\ cout.entry.CreatedAt = cin.CreatedAt
        /\ cout.entry.Sections = cin.Sections

-----------------------------------------------------------------------------
(* Social store.                                                            *)

\* config.SocialDataDir with XDG_DATA_HOME unset
SocialDataDir == Home \o <<".local", "share", "pulse", "social">>
postsDir == SocialDataDir \o <<"posts">>

\* a nil *uuid.UUID; a parent is the one-element sequence of its identifier
NoParent == <<>>

\* mutant: a new post is marked as synced from the start
NewSocialPost_Synced(id, authorName, content, tags, parentPostID) ==
    [ID |-> id, AuthorName |-> authorName, Content |-> content, Tags |-> tags,
     CreatedAt |-> now, ParentPostID |-> parentPostID, Synced |-> TRUE]

\* models.NewSocialPost: a fresh identifier, the current time, not synced
NewSocialPost(id, authorName, content, tags, parentPostID) ==
    [ID |-> id, AuthorName |-> authorName, Content |-> content, Tags |-> tags,
     CreatedAt |-> now, ParentPostID |-> parentPostID, Synced |-> FALSE]

\* the path CreatePost computes for a post
PostPath(post) ==
    postsDir \o <<FormatDate(post.CreatedAt),
                  MdName(FormatClock(post.CreatedAt), ShortID(post.ID))>>

\* the bytes CreatePost hands to the atomic writer
PostContent(post) ==
    RenderFrontmatter(
        [ID |-> IDString(post.ID), Author |-> post.AuthorName, Tags |-> post.Tags,
         CreatedAt |-> FormatTime(post.CreatedAt),
         ParentPostID |-> IF post.ParentPostID # NoParent
                          THEN IDString(post.ParentPostID[1]) ELSE <<>>,
         Synced |-> post.Synced],
        post.Content \o <<NL>>)

NoPost == [err |-> "", post |-> NoEntry]

parseSocialPost(content) ==
    LET c == ParseFrontmatter(content)
    IN  IF ~c.has THEN [NoPost EXCEPT !.err = "NoFrontmatter"]
        ELSE IF ~ParsesAsYAML(c) THEN [NoPost EXCEPT !.err = "InvalidYAML"]
        ELSE IF ~IsUUIDText(c.fm.ID) THEN [NoPost EXCEPT !.err = "InvalidUUID"]
        ELSE IF ~IsTimeText(c.fm.CreatedAt) THEN [NoPost EXCEPT !.err = "InvalidDate"]
        ELSE [err |-> "",
              post |-> [ID |-> ParseUUID(c.fm.ID),
                        AuthorName |-> c.fm.Author,
                        Content |-> TrimSpace(c.body),
                        Tags |-> c.fm.Tags,
                        CreatedAt |-> ParseTime(c.fm.CreatedAt),
                        ParentPostID |->
                            IF c.fm.ParentPostID # <<>> /\ IsUUIDText(c.fm.ParentPostID)
                            THEN <<ParseUUID(c.fm.ParentPostID)>> ELSE NoParent,
                        Synced |-> c.fm.Synced]]

containsTag(tags, tag) == \E i \in 1..Len(tags) : tags[i] = tag

\* the .md files in the directories under posts/
PostFiles ==
    {p \in DOMAIN fs :
        /\ UnderRoot(p, postsDir)
        /\ Len(p) = Len(postsDir) + 2
        /\ IsMdName(p[Len(p)])}

\* mutant: the thread filter without the test for the thread root itself
PassesFilters_RepliesOnly(post, opts) ==
    /\ ~(opts.AgentFilter # "" /\ post.AuthorName # opts.AgentFilter)
    /\ ~(opts.TagFilter # "" /\ ~containsTag(post.Tags, opts.TagFilter))
    /\ ~(/\ opts.ThreadID # <<>>
         /\ \/ post.ParentPostID = NoParent
            \/ IDString(post.ParentPostID[1]) # opts.ThreadID)

\* the three filters in the loop of ListPosts: a post that fails one is skipped
PassesFilters(post, opts) ==
    /\ ~(opts.AgentFilter # "" /\ post.AuthorName # opts.AgentFilter)
    /\ ~(opts.TagFilter # "" /\ ~containsTag(post.Tags, opts.TagFilter))
    /\ ~(/\ opts.ThreadID # <<>>
         /\ \/ post.ParentPostID = NoParent
            \/ IDString(post.ParentPostID[1]) # opts.ThreadID
         /\ IDString(post.ID) # opts.ThreadID)

\* allPosts before the sort: the posts of the files that decode and pass
allPosts(opts) ==
    LET files == SeqOf({p \in PostFiles :
                            /\ Readable(fs[p])
                            /\ parseSocialPost(fs[p]).err = ""
                            /\ PassesFilters(parseSocialPost(fs[p]).post, opts)})
    IN  [i \in 1..Len(files) |-> parseSocialPost(fs[files[i]]).post]

DefaultLimit == 10

\* mutant: the limit is applied before the offset
Paginate_LimitFirst(posts, opts) ==
    LET limit0 == IF opts.Limit <= 0 THEN DefaultLimit ELSE opts.Limit
        limit == IF limit0 > Len(posts) THEN Len(posts) ELSE limit0
        kept == SubSeq(posts, 1, limit)
    IN  IF opts.Offset > 0
        THEN (IF opts.Offset >= Len(kept) THEN <<>>
              ELSE SubSeq(kept, opts.Offset + 1, Len(kept)))
        ELSE kept

\* the pagination of ListPosts: the offset, then the limit
Paginate(posts, opts) ==
    LET rest == IF opts.Offset > 0
                THEN (IF opts.Offset >= Len(posts) THEN <<>>
                      ELSE SubSeq(posts, opts.Offset + 1, Len(posts)))
                ELSE posts
        limit0 == IF opts.Limit <= 0 THEN DefaultLimit ELSE opts.Limit
        limit == IF limit0 > Len(rest) THEN Len(rest) ELSE limit0
    IN  SubSeq(rest, 1, limit)

\* ListPosts(opts): nothing when posts/ does not exist; otherwise the page of
\* an order the sort may produce
ListPostsResults(opts) ==
    IF ~IsDir(postsDir) THEN {<<>>}
    ELSE {Paginate(s, opts) : s \in SortOutcomes(allPosts(opts))}

\* filepath.Walk visits names in lexical order: date directories by date,
\* files by clock, then by short identifier
FileRank(name) ==
    IF name = "notes.md" THEN <<SecsPerDay, 0>>
    ELSE CHOOSE k \in (0..(SecsPerDay - 1)) \X (1..NumShort) :
            MdName("T" \o ToString(k[1]) \o "-000000", ToString(k[2])) = name

WalkBefore(p, q) ==
    \/ BucketDay(p) < BucketDay(q)
    \/ /\ BucketDay(p) = BucketDay(q)
       /\ \/ FileRank(p[Len(p)])[1] < FileRank(q[Len(q)])[1]
          \/ /\ FileRank(p[Len(p)])[1] = FileRank(q[Len(q)])[1]
             /\ FileRank(p[Len(p)])[2] < FileRank(q[Len(q)])[2]

\* mutant: a post is recognised by the short identifier of its file name
HasPostID_ShortOnly(content, postID) ==
    /\ ParseFrontmatter(content).has
    /\ postID # <<>>
    /\ ParseFrontmatter(content).fm.ID[1] = postID[1]

\* the test of MarkSynced's walk: the file has a metadata block and its id
\* field is the text postID
HasPostID(content, postID) ==
    /\ Readable(content)
    /\ ParseFrontmatter(content).has
    /\ ParsesAsYAML(ParseFrontmatter(content))
    /\ ParseFrontmatter(content).fm.ID = postID

\* mutant: the rewrite loses the parent identifier
SyncedContent_DropsParent(content) ==
    LET c == ParseFrontmatter(content)
    IN  RenderFrontmatter(
            [ID |-> c.fm.ID, Author |-> c.fm.Author, Tags |-> c.fm.Tags,
             CreatedAt |-> c.fm.CreatedAt, ParentPostID |-> <<>>, Synced |-> TRUE],
            c.body)

\* the file MarkSynced writes back: the decoded metadata with synced set, and
\* the body as it was
SyncedContent(content) ==
    LET c == ParseFrontmatter(content)
    IN  RenderFrontmatter(
            [ID |-> c.fm.ID, Author |-> c.fm.Author, Tags |-> c.fm.Tags,
             CreatedAt |-> c.fm.CreatedAt, ParentPostID |-> c.fm.ParentPostID,
             Synced |-> TRUE],
            c.body)

\* the files whose id field is postID, and the one the walk meets first
MarkSyncedMatches(postID) == {p \in PostFiles : HasPostID(fs[p], postID)}
MarkSyncedFile(postID) ==
    CHOOSE p \in MarkSyncedMatches(postID) :
        \A q \in MarkSyncedMatches(postID) \ {p} : WalkBefore(p, q)

\* mutant: the walk goes on after a match and rewrites every file that matches
MarkSyncedResult_WalksOn(postID) ==
    IF MarkSyncedMatches(postID) = {} THEN [err |-> "NotFound", fs |-> fs, read |-> PostFiles]
    ELSE [err |-> "",
          fs |-> [p \in DOMAIN fs |->
                    IF p \in MarkSyncedMatches(postID) THEN SyncedContent(fs[p]) ELSE fs[p]],
          read |-> PostFiles]

\* MarkSynced(postID): the error, the file system it leaves and the files the
\* walk has read; the walk stops at the first file that matches
MarkSyncedResult(postID) ==
    IF MarkSyncedMatches(postID) = {} THEN [err |-> "NotFound", fs |-> fs, read |-> PostFiles]
    ELSE [err |-> "",
          fs |-> WithFile(MarkSyncedFile(postID), SyncedContent(fs[MarkSyncedFile(postID)])),
          read |-> {p \in PostFiles :
                        p = MarkSyncedFile(postID) \/ WalkBefore(p, MarkSyncedFile(postID))}]

-----------------------------------------------------------------------------
(* Social store: the state machine.                                        *)

MaxPosts == 3

alice == "alice"
bob == "bob"
go == "go"

\* what the agents post
Drafts ==
    {[AuthorName |-> alice, Content |-> <<"h", "i">>, Tags |-> <<go>>],
     [AuthorName |-> bob, Content |-> <<"y", "o">>, Tags |-> <<>>]}

StoredIDs == {written[p].ID : p \in {q \in DOMAIN written : UnderRoot(q, postsDir)}}

\* an identifier no post has: uuid.New starts the serials at 1
UnknownID == [short |-> 1, serial |-> 0]

ListPostsOptions(limits, offsets, agents, tags, threads) ==
    {[Limit |-> l, Offset |-> o, AgentFilter |-> a, TagFilter |-> t, ThreadID |-> th] :
        l \in limits, o \in offsets, a \in agents, t \in tags, th \in threads}

SocialQueries ==
    ListPostsOptions({0, 1}, {0, 1}, {"", alice}, {"", go},
                     {<<>>} \cup {IDString(id) : id \in StoredIDs \cup {UnknownID}})

InitSocial ==
    /\ cwd = Home
    /\ server = NoServer
    /\ wizard = NoWizard
    /\ tz = 0
    /\ now = MaxTime - MicrosPerSec
    /\ fs = [p \in {} |-> OutsideContent]
    /\ serial = 0
    /\ written = [p \in {} |-> NoEntry]
    /\ res = NoResult
    /\ cin = NoEntry
    /\ cout = NoEntry
    /\ procs = NoWriters

\* handleCreatePost: NewSocialPost, then CreatePost
CreatePostOf(ids, drafts, parents) ==
    /\ res = NoResult
    /\ \E id \in ids, draft \in drafts, parent \in parents :
        LET post == NewSocialPost(id, draft.AuthorName, draft.Content, draft.Tags, parent)
        IN  /\ fs' = WithFile(PostPath(post), PostContent(post))
            /\ written' = Put(written, PostPath(post), post)
            /\ res' = [op |-> "CreatePost", err |-> "", post |-> post]
    /\ serial' = serial + 1

CreatePost ==
    /\ serial < MaxPosts
    /\ CreatePostOf(NewIDs, Drafts, {NoParent} \cup {<<id>> : id \in StoredIDs})
    /\ UNCHANGED <<procs, cwd, tz, now, cin, cout, wizard, server>>

MarkSynced ==
    /\ res = NoResult
    /\ \E id \in StoredIDs \cup {UnknownID} :
        LET r == MarkSyncedResult(IDString(id))
        IN  /\ fs' = r.fs
            /\ written' = [p \in DOMAIN written |->
                            IF written[p].ID = id
                            THEN [written[p] EXCEPT !.Synced = TRUE] ELSE written[p]]
            /\ res' = [op |-> "MarkSynced", postID |-> IDString(id), err |-> r.err,
                       read |-> r.read]
    /\ UNCHANGED <<procs, cwd, tz, now, serial, cin, cout, wizard, server>>

ListPostsOf(queries) ==
    /\ res = NoResult
    /\ \E opts \in queries :
        \E posts \in ListPostsResults(opts) :
            res' = [op |-> "ListPosts", opts |-> opts, err |-> "", posts |-> posts]
    /\ UNCHANGED <<procs, cwd, tz, now, fs, serial, written, cin, cout, wizard, server>>

ListPosts == ListPostsOf(SocialQueries)

NextSocial == Tick \/ CreatePost \/ MarkSynced \/ ListPosts \/ Return

SpecSocial == InitSocial /\ [][NextSocial]_vars

-----------------------------------------------------------------------------
(* A long feed: posts made one after the other, listed page by page.       *)

MaxFeedPosts == 12
FeedTies == 2
MaxFeedLimit == 3

\* the k-th post of the feed: authors alternate, every third post is tagged,
\* every fourth replies to the first post
FeedDraft(k) ==
    [AuthorName |-> IF k % 2 = 0 THEN alice ELSE bob,
     Content |-> <<"h", "i">>,
     Tags |-> IF k % 3 = 0 THEN <<go>> ELSE <<>>]

FeedRoot == [short |-> 1, serial |-> 1]
FeedParent(k) == IF k % 4 = 1 THEN <<FeedRoot>> ELSE NoParent
FeedIDs == {id \in NewIDs : id.short = 1 + (serial % NumShort)}

FeedQueries ==
    ListPostsOptions(((0 - 1)..MaxFeedLimit) \cup {MaxFeedPosts - 1},
                     (0 - 1)..(MaxFeedPosts + 1),
                     {"", alice, bob}, {"", go},
                     {<<>>, IDString(FeedRoot), IDString(UnknownID)})

InitFeed ==
    /\ cwd = Home
    /\ server = NoServer
    /\ wizard = NoWizard
    /\ tz = 0
    /\ now = StartTime
    /\ fs = [p \in {} |-> OutsideContent]
    /\ serial = 0
    /\ written = [p \in {} |-> NoEntry]
    /\ res = NoResult
    /\ cin = NoEntry
    /\ cout = NoEntry
    /\ procs = NoWriters

\* handleCreatePost; the first FeedTies posts fall into the same second, the
\* later ones are a second apart
FeedCreatePost ==
    /\ serial < MaxFeedPosts
    /\ CreatePostOf(FeedIDs, {FeedDraft(serial)}, {FeedParent(serial)})
    /\ now' = IF serial + 1 < FeedTies THEN now ELSE now + MicrosPerSec
    /\ UNCHANGED <<procs, cwd, tz, cin, cout, wizard, server>>

FeedListPosts == ListPostsOf(FeedQueries)

NextFeed == FeedCreatePost \/ FeedListPosts \/ Return

SpecFeed == InitFeed /\ [][NextFeed]_vars

-----------------------------------------------------------------------------
(* Properties of the social store.                                         *)

\* the options that list every post
EveryPost ==
    [Limit |-> Cardinality(DOMAIN fs) + 1, Offset |-> 0, AgentFilter |-> "",
     TagFilter |-> "", ThreadID |-> <<>>]

\* the posts ListPosts reports when nothing filters or cuts the list
Listed == UNION {Range(s) : s \in ListPostsResults(EveryPost)}

\* the posts as created, with the synced flags set since
StoredPosts == {written[p] : p \in DOMAIN written}

\* C7: MarkSynced(id) on a stored unsynced post succeeds; the file of that
\* post then decodes to the same post with synced = true, no file appears or
\* disappears, every other file is as it was, and after a successful
\* MarkSynced the listing reports the post as synced and is the stored posts.
C7_MarkSyncedFlipsOnlySynced ==
    /\ [][(/\ res = NoResult
           /\ res'.op = "MarkSynced"
           /\ \E post \in Listed : IDString(post.ID) = res'.postID /\ ~post.Synced) =>
           LET post == CHOOSE p \in Listed : IDString(p.ID) = res'.postID
               path == CHOOSE f \in PostFiles : parseSocialPost(fs[f]).post = post
           IN  /\ res'.err = ""
               /\ DOMAIN fs' = DOMAIN fs
               /\ parseSocialPost(fs'[path]) =
                    [err |-> "", post |-> [post EXCEPT !.Synced = TRUE]]
               /\ \A f \in DOMAIN fs \ {path} : fs'[f] = fs[f]]_vars
    /\ []((res.op = "MarkSynced" /\ res.err = "") =>
            /\ \E post \in Listed : IDString(post.ID) = res.postID /\ post.Synced
            /\ Listed = StoredPosts)

\* C7 witness: of three listed posts, the only synced one is the one just
\* marked; it has tags and a parent
C7_Witness ==
    /\ res.op = "MarkSynced" /\ res.err = ""
    /\ Cardinality(Listed) = 3
    /\ \A post \in Listed : post.Synced <=> IDString(post.ID) = res.postID
    /\ \E post \in Listed :
        post.Synced /\ post.Tags # <<>> /\ post.ParentPostID # NoParent

\* C8: MarkSynced(id) with an id that no stored post has (also when posts/
\* does not exist) returns the not-found error and leaves every file as it
\* was; after it the listing is the stored posts, with their synced flags.
C8_MarkSyncedUnknownID ==
    /\ [][(/\ res = NoResult
           /\ res'.op = "MarkSynced"
           /\ \A post \in StoredPosts : IDString(post.ID) # res'.postID) =>
           /\ res'.err = "NotFound"
           /\ fs' = fs]_vars
    /\ []((res.op = "MarkSynced" /\ res.err = "NotFound") => Listed = StoredPosts)

\* C8 witness: the not-found error with unsynced posts in the store, one of
\* them with the short identifier of the id asked for
C8_Witness ==
    /\ res.op = "MarkSynced" /\ res.err = "NotFound"
    /\ \E post \in Listed : ~post.Synced /\ IDString(post.ID)[1] = res.postID[1]

\* the limit in force does not cut a list of the stored posts
LimitLargeEnough(opts) ==
    (IF opts.Limit <= 0 THEN DefaultLimit ELSE opts.Limit) >= Cardinality(StoredPosts)

\* C9: ListPosts with ThreadID = t, no other filter, no offset and a limit
\* large enough returns, each once, exactly the stored posts whose parent
\* identifier is t or whose own identifier is t.
C9_ThreadIsRootAndDirectReplies ==
    (/\ res.op = "ListPosts"
     /\ res.opts.ThreadID # <<>>
     /\ res.opts.AgentFilter = "" /\ res.opts.TagFilter = ""
     /\ res.opts.Offset = 0
     /\ LimitLargeEnough(res.opts)) =>
        LET t == res.opts.ThreadID
            thread == {post \in StoredPosts :
                        \/ IDString(post.ID) = t
                        \/ post.ParentPostID # NoParent /\ IDString(post.ParentPostID[1]) = t}
        IN  /\ Range(res.posts) = thread
            /\ Len(res.posts) = Cardinality(thread)

\* C9 witness: the thread of a root with a reply, and a reply to that reply
\* which is left out
C9_Witness ==
    /\ res.op = "ListPosts" /\ res.opts.ThreadID # <<>>
    /\ res.opts.AgentFilter = "" /\ res.opts.TagFilter = ""
    /\ res.opts.Offset = 0 /\ res.opts.Limit = 0
    /\ Len(res.posts) = 2
    /\ \E root, reply \in Range(res.posts) :
        /\ IDString(root.ID) = res.opts.ThreadID
        /\ reply.ParentPostID = <<root.ID>>
        /\ \E other \in StoredPosts \ Range(res.posts) : other.ParentPostID = <<reply.ID>>

\* the reference filter and the reference page of a sorted list
RefMatches(post, opts) ==
    /\ opts.AgentFilter = "" \/ post.AuthorName = opts.AgentFilter
    /\ opts.TagFilter = "" \/ opts.TagFilter \in Range(post.Tags)
    /\ \/ opts.ThreadID = <<>>
       \/ IDString(post.ID) = opts.ThreadID
       \/ post.ParentPostID # NoParent /\ IDString(post.ParentPostID[1]) = opts.ThreadID

RefPage(s, opts) ==
    LET lo == IF opts.Offset > 0 THEN opts.Offset ELSE 0
        lim == IF opts.Limit <= 0 THEN 10 ELSE opts.Limit
        n == IF Len(s) - lo < 0 THEN 0 ELSE Min(lim, Len(s) - lo)
    IN  [i \in 1..n |-> s[lo + i]]

\* C10: ListPosts(opts) is the reference page (filter, sort newest first, drop
\* Offset, keep Limit, 10 when Limit <= 0) of the stored posts; and for a
\* limit L > 0 the pages at offsets 0, L, 2L, ... of the order the sort gives
\* on the unchanged store, put one after the other, are that order: the pages
\* are disjoint and enumerate every matching post once.
C10_ListPostsIsReferencePage ==
    (res.op = "ListPosts") =>
        LET matching == {post \in StoredPosts : RefMatches(post, res.opts)}
            L == res.opts.Limit
        IN  /\ \E s \in SortOutcomes(SeqOf(matching)) : res.posts = RefPage(s, res.opts)
            /\ L > 0 =>
                \A s \in SortOutcomes(allPosts(res.opts)) :
                    /\ Range(s) = matching
                    /\ Len(s) = Cardinality(matching)
                    /\ Concat([k \in 1..(Len(s) + 1) |->
                            Paginate(s, [res.opts EXCEPT !.Offset = (k - 1) * L])]) = s

\* C10 witness: more than ten posts follow the offset, no limit is given, and
\* the page holds ten
C10_Witness ==
    /\ res.op = "ListPosts"
    /\ res.opts.Limit = 0 /\ res.opts.Offset = 1
    /\ res.opts.AgentFilter = "" /\ res.opts.TagFilter = "" /\ res.opts.ThreadID = <<>>
    /\ Cardinality(StoredPosts) = 12
    /\ Len(res.posts) = 10

-----------------------------------------------------------------------------
(* Path layout: records written microseconds apart.                        *)

InitLayout ==
    /\ cwd = Work
    /\ server = NoServer
    /\ wizard = NoWizard
    /\ tz \in TZOffsets
    /\ now = MaxTime - MicrosPerSec
    /\ fs = [p \in {} |-> OutsideContent]
    /\ serial = 0
    /\ written = [p \in {} |-> NoEntry]
    /\ res = NoResult
    /\ cin = NoEntry
    /\ cout = NoEntry
    /\ procs = NoWriters

\* the clock advances by a microsecond
Moment ==
    /\ res = NoResult
    /\ now + 1 <= MaxTime
    /\ now' = now + 1
    /\ UNCHANGED <<procs, cwd, tz, fs, serial, written, res, cin, cout, wizard, server>>

NextLayout == Moment \/ WriteEntry \/ CreatePost \/ Return

SpecLayout == InitLayout /\ [][NextLayout]_vars

\* the six digits of the microseconds of t
MicrosText(t) == "00000" \o ToString(LocalTime(t) % MicrosPerSec)

\* <root>/<date of t>/<HH-MM-SS of t>-<microseconds of t>-<first 8 hex digits of id>.md
LayoutPath(root, t, id) ==
    root \o <<DateName(LocalDay(t)),
              "T" \o ToString((LocalTime(t) % MicrosPerDay) \div MicrosPerSec)
                  \o "-" \o MicrosText(t) \o "-" \o ToString(id.short) \o ".md">>

\* the record a successful write call stored, and the root it belongs under
Stored(r) == IF r.op = "WriteEntry" THEN r.entry ELSE r.post
StoredRoot(r) == IF r.op = "WriteEntry" THEN RootOfType(r.entry.Type) ELSE postsDir

\* C17: the file WriteEntry and CreatePost write is the one at
\* <root>/<date>/<time>-<microseconds>-<first 8 hex digits of the id>.md, and
\* it is not the file of a stored record with a different timestamp (whatever
\* the identifiers).
C17_PathFromTimeAndID ==
    [][(res = NoResult /\ res'.op \in {"WriteEntry", "CreatePost"} /\ res'.err = "") =>
        LET rec == Stored(res')
            path == LayoutPath(StoredRoot(res'), rec.CreatedAt, rec.ID)
        IN  /\ DOMAIN fs' = DOMAIN fs \cup {path}
            /\ \A p \in DOMAIN fs \ {path} : fs'[p] = fs[p]
            /\ \A p \in DOMAIN written : written[p].CreatedAt # rec.CreatedAt => p # path]_vars

\* C15: no call deletes a file once written or changes its content, with the
\* one exception that the synced flag of a post file may go from false to
\* true.
C15_AppendOnly ==
    [][\A p \in DOMAIN fs :
        /\ p \in DOMAIN fs'
        /\ \/ fs'[p] = fs[p]
           \/ /\ UnderRoot(p, postsDir)
              /\ ~fs[p].fm.Synced
              /\ fs'[p] = [fs[p] EXCEPT !.fm.Synced = TRUE]]_vars

-----------------------------------------------------------------------------
(* The atomic write discipline, step by step: mdstore.AtomicWrite stages   *)
(* the bytes in a temporary file next to the target and renames it onto    *)
(* the target; os.WriteFile truncates the target and writes into it.  A    *)
(* file of which only the first n of StageSteps parts are written is the   *)
(* record [partial |-> n, of |-> data].                                    *)

StageSteps == 2

AtomicWrite == "AtomicWrite"
WriteFile == "WriteFile"

\* how each operation writes its file
WriteEntryWrite_WriteFile == WriteFile
WriteEntryWrite == AtomicWrite
CreatePostWrite_WriteFile == WriteFile
CreatePostWrite == AtomicWrite
MarkSyncedWrite_WriteFile == WriteFile
MarkSyncedWrite == AtomicWrite
WriteEmbeddingWrite == AtomicWrite

\* mutant: every writer of a target stages in the same temporary file
TempPath_Shared(t, path) == SubSeq(path, 1, Len(path) - 1) \o <<path[Len(path)] \o ".tmp">>

\* the temporary file of a write: next to the target, and the writer's own
\* (no reader may ever find a partial write under the target name, so no
\* other writer's bytes may be renamed onto it)
TempPath(t, path) ==
    SubSeq(path, 1, Len(path) - 1) \o <<path[Len(path)] \o ".tmp." \o t>>

\* the file the bytes go to as they are written
StagePath(t, how, path) == IF how = AtomicWrite THEN TempPath(t, path) ELSE path

Partial(data, n) == IF n >= StageSteps THEN data ELSE [partial |-> n, of |-> data]

\* strings.TrimSuffix(mdPath, ".md") + ".embedding", for the path of an entry
EmbeddingPath(mdPath) ==
    SubSeq(mdPath, 1, Len(mdPath) - 1)
        \o <<"T" \o ToString(FileRank(mdPath[Len(mdPath)])[1]) \o "-000000-"
                 \o ToString(FileRank(mdPath[Len(mdPath)])[2]) \o ".embedding">>

\* mutant: the texts are joined by a single line break
EmbeddedText_OneBreak(sections, names) ==
    Join([i \in 1..Len(names) |-> sections[names[i]]], <<NL>>)

\* strings.Join(parts, "\n\n") for the texts of the sections named, in the
\* order the loop over the map met them
EmbeddedText(sections, names) ==
    Join([i \in 1..Len(names) |-> sections[names[i]]], <<NL, NL>>)

\* the sidecar WriteEmbedding makes of an entry's sections: the texts joined
\* by blank lines, their names, the vector of the embedder, the Unix time
EmbeddingContent(mdPath, vector, sections) ==
    LET names == SeqOf({n \in DOMAIN sections : sections[n] # <<>>})
    IN  [json |-> [Vector |-> vector,
                   Text |-> EmbeddedText(sections, names),
                   Sections |-> names,
                   Timestamp |-> now \div MicrosPerSec,
                   Path |-> mdPath]]

\* the history of a target: the complete contents handed to the writers of it
Handed(path) == IF path \in DOMAIN written THEN written[path] ELSE <<>>

\* a thread hands data for path to a writer, which opens the staging file
Begin(t, op, how, path, data) ==
    /\ procs' = [procs EXCEPT ![t] =
                    [op |-> op, pc |-> "staging", how |-> how, path |-> path,
                     data |-> data, n |-> 0]]
    /\ fs' = WithFile(StagePath(t, how, path), Partial(data, 0))
    /\ written' = Put(written, path, Append(Handed(path), data))

InitAtomic ==
    /\ cwd = Work
    /\ server = NoServer
    /\ wizard = NoWizard
    /\ tz = 0
    /\ now = StartTime
    /\ fs = [p \in {} |-> OutsideContent]
    /\ serial = 0
    /\ written = [p \in {} |-> <<>>]
    /\ res = NoResult
    /\ cin = NoEntry
    /\ cout = NoEntry
    /\ procs = NoWriters

\* WriteEntry up to the call of the writer
BeginWriteEntry ==
    /\ procs["journal"].op = "none"
    /\ \E id \in NewIDs :
        LET entry == [ID |-> id, Sections |-> SectionsFor("user"), CreatedAt |-> now,
                      FilePath |-> <<>>, Type |-> "user"]
        IN  Begin("journal", "WriteEntry", WriteEntryWrite, EntryPath(entry),
                  EntryContent(entry))
    /\ serial' = serial + 1
    /\ UNCHANGED <<cwd, tz, now, res, cin, cout, wizard, server>>

\* WriteEmbedding for the entry just written, up to the call of the writer
BeginWriteEmbedding ==
    /\ procs["journal"].op = "WriteEntry" /\ procs["journal"].pc = "done"
    /\ Begin("journal", "WriteEmbedding", WriteEmbeddingWrite,
             EmbeddingPath(procs["journal"].path),
             EmbeddingContent(procs["journal"].path, <<1, 0>>, SectionsFor("user")))
    /\ UNCHANGED <<cwd, tz, now, serial, res, cin, cout, wizard, server>>

\* CreatePost up to the call of the writer
BeginCreatePost ==
    /\ procs["social"].op = "none"
    /\ \E id \in NewIDs, draft \in Drafts :
        LET post == NewSocialPost(id, draft.AuthorName, draft.Content, draft.Tags, NoParent)
        IN  Begin("social", "CreatePost", CreatePostWrite, PostPath(post), PostContent(post))
    /\ serial' = serial + 1
    /\ UNCHANGED <<cwd, tz, now, res, cin, cout, wizard, server>>

\* MarkSynced for the post just created: the walk, up to the call of the writer
BeginMarkSynced ==
    /\ procs["social"].op = "CreatePost" /\ procs["social"].pc = "done"
    /\ LET postID == ParseFrontmatter(procs["social"].data).fm.ID
       IN  /\ MarkSyncedMatches(postID) # {}
           /\ Begin("social", "MarkSynced", MarkSyncedWrite, MarkSyncedFile(postID),
                    SyncedContent(fs[MarkSyncedFile(postID)]))
    /\ UNCHANGED <<cwd, tz, now, serial, res, cin, cout, wizard, server>>

\* the writer writes the next part
Stage ==
    \E t \in Threads :
        /\ procs[t].pc = "staging"
        /\ procs[t].n < StageSteps
        /\ procs' = [procs EXCEPT ![t].n = @ + 1]
        /\ fs' = WithFile(StagePath(t, procs[t].how, procs[t].path),
                          Partial(procs[t].data, procs[t].n + 1))
        /\ UNCHANGED <<cwd, tz, now, serial, written, res, cin, cout, wizard, server>>

\* all parts are written: AtomicWrite renames the temporary file onto the
\* target (which fails when the temporary file is not there), WriteFile
\* closes the target
Publish ==
    \E t \in Threads :
        /\ procs[t].pc = "staging"
        /\ procs[t].n = StageSteps
        /\ IF procs[t].how = AtomicWrite /\ ~Exists(TempPath(t, procs[t].path))
           THEN procs' = [procs EXCEPT ![t].pc = "failed"] /\ fs' = fs
           ELSE /\ procs' = [procs EXCEPT ![t].pc = "done"]
                /\ fs' = IF procs[t].how = AtomicWrite
                         THEN [x \in (DOMAIN fs \ {TempPath(t, procs[t].path)})
                                        \cup {procs[t].path} |->
                                IF x = procs[t].path THEN fs[TempPath(t, procs[t].path)]
                                ELSE fs[x]]
                         ELSE fs
        /\ UNCHANGED <<cwd, tz, now, serial, written, res, cin, cout, wizard, server>>

\* the write fails before all parts are written: AtomicWrite removes the
\* temporary file, WriteFile leaves the target as far as it got
StagingFails ==
    \E t \in Threads :
        /\ procs[t].pc = "staging"
        /\ procs[t].n < StageSteps
        /\ procs' = [procs EXCEPT ![t].pc = "failed"]
        /\ fs' = IF procs[t].how = AtomicWrite
                 THEN [x \in DOMAIN fs \ {TempPath(t, procs[t].path)} |-> fs[x]]
                 ELSE fs
        /\ UNCHANGED <<cwd, tz, now, serial, written, res, cin, cout, wizard, server>>

\* all parts are written and the rename of the temporary file fails: the
\* target stays as it is, the temporary file is removed or is left behind
RenameFails ==
    \E t \in Threads :
        /\ procs[t].pc = "staging"
        /\ procs[t].n = StageSteps
        /\ procs[t].how = AtomicWrite
        /\ procs' = [procs EXCEPT ![t].pc = "failed"]
        /\ \/ fs' = [x \in DOMAIN fs \ {TempPath(t, procs[t].path)} |-> fs[x]]
           \/ fs' = fs
        /\ UNCHANGED <<cwd, tz, now, serial, written, res, cin, cout, wizard, server>>

\* a reader (ReadEntry, ListEntries, ListPosts, SearchWithEmbeddings, another
\* process) reads the file at a target path
ReadFile ==
    /\ \E path \in DOMAIN written :
        res' = [op |-> "ReadFile", path |-> path, found |-> Exists(path),
                content |-> IF Exists(path) THEN fs[path] ELSE NoEntry,
                handed |-> Len(written[path]),
                writing |->{t \in Threads : procs[t].path = path /\ procs[t].pc = "staging"}]
    /\ UNCHANGED <<procs, cwd, tz, now, fs, serial, written, cin, cout, wizard, server>>

NextAtomic ==
    \/ BeginWriteEntry \/ BeginWriteEmbedding \/ BeginCreatePost \/ BeginMarkSynced
    \/ Stage \/ Publish \/ StagingFails \/ RenameFails \/ ReadFile

SpecAtomic == InitAtomic /\ [][NextAtomic]_vars

\* C3: what a reader finds at a target path is no file or a complete content
\* handed to a writer of that path; while a write of the path is in progress
\* it is the state before that write (no file, or the complete content handed
\* before), and once the write is published it is the new content.  A target
\* changes only in the step that publishes a write, and then to the whole of
\* the data.
C3_ReadersSeeOldOrNew ==
    /\ [](res.op = "ReadFile" =>
            /\ res.found => \E i \in 1..res.handed : res.content = written[res.path][i]
            /\ res.writing # {} =>
                IF res.handed = 1 THEN ~res.found
                ELSE res.found /\ res.content = written[res.path][res.handed - 1])
    /\ [](\A path \in DOMAIN written :
            /\ Exists(path) => \E i \in 1..Len(written[path]) : fs[path] = written[path][i]
            /\ (\E t \in Threads : procs[t].path = path /\ procs[t].pc = "done")
                    => Exists(path) /\ fs[path] = written[path][Len(written[path])])
    /\ [][\A path \in DOMAIN written' :
            \/ (path \in DOMAIN fs') = (path \in DOMAIN fs)
                    /\ (path \in DOMAIN fs => fs'[path] = fs[path])
            \/
                \E t \in Threads :
                    /\ procs[t].pc = "staging" /\ procs'[t].pc = "done"
                    /\ procs[t].path = path
                    /\ fs'[path] = procs[t].data]_vars

\* C3 witness: a reader finds the old complete post while MarkSynced has
\* written half of the new content
C3_Witness ==
    /\ res.op = "ReadFile" /\ res.found
    /\ res.writing = {"social"}
    /\ procs["social"].op = "MarkSynced" /\ procs["social"].n = 1
    /\ res.content = written[res.path][1]
    /\ fs[TempPath("social", res.path)] = [partial |-> 1, of |-> procs["social"].data]

\* the directory of a file
Dir(path) == SubSeq(path, 1, Len(path) - 1)

\* C24: a write that is under way has the directory of its target; a write
\* that fails, while staging or in the rename, leaves the target as it was:
\* no file if there was none, else the complete content it had; the failed
\* operation has ended with the error and does not start the write again.
C24_FailedWriteLeavesTarget ==
    /\ [](\A t \in Threads :
            /\ procs[t].pc = "staging" => IsDir(Dir(procs[t].path))
            /\ (procs[t].pc \in {"staging", "failed"} /\ Len(written[procs[t].path]) = 1) =>
                    ~Exists(procs[t].path)
            /\ (procs[t].pc \in {"staging", "failed"} /\ Len(written[procs[t].path]) > 1) =>
                    /\ Exists(procs[t].path)
                    /\ fs[procs[t].path] =
                            written[procs[t].path][Len(written[procs[t].path]) - 1])
    /\ [][\A t \in Threads :
            /\ (procs[t].pc = "staging" /\ procs'[t].pc = "failed") =>
                    /\ (procs[t].path \in DOMAIN fs') = (procs[t].path \in DOMAIN fs)
                    /\ procs[t].path \in DOMAIN fs => fs'[procs[t].path] = fs[procs[t].path]
            /\ procs[t].pc = "failed" => procs'[t] = procs[t]]_vars

\* C24 witness: MarkSynced failed in the rename and the post file is the
\* complete post as created, in a directory that the write of the post made;
\* WriteEntry failed while staging and there is no entry file
C24_Witness ==
    /\ procs["social"].op = "MarkSynced" /\ procs["social"].pc = "failed"
    /\ procs["social"].n = StageSteps
    /\ fs[procs["social"].path] = written[procs["social"].path][1]
    /\ procs["journal"].op = "WriteEntry" /\ procs["journal"].pc = "failed"
    /\ procs["journal"].n < StageSteps
    /\ ~Exists(procs["journal"].path)

-----------------------------------------------------------------------------
(* Two MarkSynced calls for the same post at the same time.                *)

\* the post both calls are for: the one post of the store
RacePath == CHOOSE p \in DOMAIN written : UnderRoot(p, postsDir)
RacePost == parseSocialPost(written[RacePath][1]).post

\* a post was created, by either agent, and is not synced
InitRace ==
    /\ cwd = Work
    /\ server = NoServer
    /\ wizard = NoWizard
    /\ tz = 0
    /\ now = StartTime
    /\ serial = 1
    /\ \E id \in {[short |-> h, serial |-> 1] : h \in 1..NumShort}, draft \in Drafts :
        LET post == NewSocialPost(id, draft.AuthorName, draft.Content, draft.Tags, NoParent)
        IN  /\ fs = [p \in {PostPath(post)} |-> PostContent(post)]
            /\ written = [p \in {PostPath(post)} |-> <<PostContent(post)>>]
    /\ res = NoResult
    /\ cin = NoEntry
    /\ cout = NoEntry
    /\ procs = NoWriters

\* MarkSynced(id), the walk: the file with the identifier is found and read
MarkSyncedRead ==
    \E t \in Threads :
        /\ procs[t].op = "none"
        /\ LET postID == IDString(RacePost.ID)
           IN  /\ MarkSyncedMatches(postID) # {}
               /\ procs' = [procs EXCEPT ![t] =
                              [op |-> "MarkSynced", pc |-> "read", how |-> MarkSyncedWrite,
                               path |-> MarkSyncedFile(postID),
                               data |-> fs[MarkSyncedFile(postID)], n |-> 0]]
        /\ UNCHANGED <<cwd, tz, now, fs, serial, written, res, cin, cout, wizard, server>>

\* MarkSynced(id), the rewrite: what was read, with synced set, goes to the writer
MarkSyncedRewrite ==
    \E t \in Threads :
        /\ procs[t].pc = "read"
        /\ Begin(t, "MarkSynced", procs[t].how, procs[t].path, SyncedContent(procs[t].data))
        /\ UNCHANGED <<cwd, tz, now, serial, res, cin, cout, wizard, server>>

NextRace == MarkSyncedRead \/ MarkSyncedRewrite \/ Stage \/ Publish \/ ReadFile

SpecRace == InitRace /\ [][NextRace]_vars

\* C14: in every interleaving of two MarkSynced calls for the same post no
\* call fails, the post file is at all times a complete record that decodes
\* to the post as created, but for the synced flag, and when both calls have
\* returned the file has synced = true and nothing else is left behind.
C14_ConcurrentMarkSynced ==
    /\ \A t \in Threads : procs[t].pc # "failed"
    /\ Exists(RacePath)
    /\ "partial" \notin DOMAIN fs[RacePath]
    /\ parseSocialPost(fs[RacePath]).err = ""
    /\ parseSocialPost(fs[RacePath]).post \in {RacePost, [RacePost EXCEPT !.Synced = TRUE]}
    /\ (\E t \in Threads : procs[t].pc = "done") => parseSocialPost(fs[RacePath]).post.Synced
    /\ (\A t \in Threads : procs[t].pc = "done") =>
            fs = [p \in {RacePath} |-> PostContent([RacePost EXCEPT !.Synced = TRUE])]

\* C14 witness: both calls have returned, each having read the post before
\* the other one renamed its file
C14_Witness ==
    /\ \A t \in Threads : procs[t].pc = "done" /\ procs[t].op = "MarkSynced"
    /\ Len(written[RacePath]) = 3
    /\ res.op = "ReadFile" /\ res.writing = Threads /\ res.content = written[RacePath][1]

-----------------------------------------------------------------------------
(* Cosine similarity.  Vector elements are whole numbers (every one is a    *)
(* float32 and its products and sums are exact in float64); a score is the  *)
(* quotient dot / (sqrt(na) * sqrt(nb)) kept as its three numbers, or one   *)
(* of the values a floating-point division gives for a zero divisor.        *)

MaxDim == 2
MaxElem == 2

\* the sums of the loop: over the indices of a, of x[i] * y[i]
RECURSIVE SumProducts(_, _, _)
SumProducts(x, y, n) == IF n = 0 THEN 0 ELSE SumProducts(x, y, n - 1) + x[n] * y[n]

\* the float64 constant 0
Zero == [nan |-> FALSE, inf |-> FALSE, num |-> 0, na |-> 1, nb |-> 1]

\* mutant: the division by the squared norms, without the square roots
Quotient_NoSqrt(dotProduct, normA, normB) ==
    [nan |-> FALSE, inf |-> FALSE, num |-> dotProduct, na |-> normA * normA,
     nb |-> normB * normB]

\* dotProduct / (math.Sqrt(normA) * math.Sqrt(normB)): 0/0 is NaN, x/0 is an
\* infinity
Quotient(dotProduct, normA, normB) ==
    IF normA * normB = 0
    THEN [nan |-> dotProduct = 0, inf |-> dotProduct # 0, num |-> dotProduct, na |-> 0, nb |-> 0]
    ELSE [nan |-> FALSE, inf |-> FALSE, num |-> dotProduct, na |-> normA, nb |-> normB]

\* mutant: the norms are not tested before the division
CosineSimilarity_NoNormTest(a, b) ==
    IF Len(a) # Len(b) \/ Len(a) = 0 THEN Zero
    ELSE Quotient(SumProducts(a, b, Len(a)), SumProducts(a, a, Len(a)),
                  SumProducts(b, b, Len(a)))

CosineSimilarity(a, b) ==
    IF Len(a) # Len(b) \/ Len(a) = 0 THEN Zero
    ELSE LET dotProduct == SumProducts(a, b, Len(a))
             normA == SumProducts(a, a, Len(a))
             normB == SumProducts(b, b, Len(a))
         IN  IF normA = 0 \/ normB = 0 THEN Zero
             ELSE Quotient(dotProduct, normA, normB)

\* the vectors of up to MaxDim elements between -MaxElem and MaxElem
Vectors == UNION {[1..n -> (0 - MaxElem)..MaxElem] : n \in 0..MaxDim}

InitCosine ==
    /\ cwd = Work
    /\ server = NoServer
    /\ wizard = NoWizard
    /\ tz = 0
    /\ now = StartTime
    /\ fs = [p \in {} |-> OutsideContent]
    /\ serial = 0
    /\ written = [p \in {} |-> NoEntry]
    /\ res = NoResult
    /\ cin \in {[a |-> a, b |-> b] : a \in Vectors, b \in Vectors}
    /\ cout = NoEntry
    /\ procs = NoWriters

\* the function is applied to the two vectors
Similarity ==
    /\ cout = NoEntry
    /\ cout' = CosineSimilarity(cin.a, cin.b)
    /\ UNCHANGED <<procs, cwd, tz, now, fs, serial, written, res, cin, wizard, server>>

NextCosine == Similarity

SpecCosine == InitCosine /\ [][NextCosine]_vars

\* a vector of Euclidean norm exactly 0: every element is 0
ZeroNorm(v) == \A i \in 1..Len(v) : v[i] = 0

\* C20: CosineSimilarity(a, b) is exactly 0, and no NaN or infinity, when a
\* vector is empty, when the lengths differ or when a vector has norm 0.
C20_DegenerateIsZero ==
    (cout # NoEntry
        /\ (Len(cin.a) = 0 \/ Len(cin.b) = 0 \/ Len(cin.a) # Len(cin.b)
                \/ ZeroNorm(cin.a) \/ ZeroNorm(cin.b))) =>
        cout = Zero

\* C20 witness: two vectors of equal length, one of them all zeros
C20_Witness ==
    /\ cout = Zero
    /\ Len(cin.a) = MaxDim /\ Len(cin.b) = MaxDim
    /\ ZeroNorm(cin.a) /\ ~ZeroNorm(cin.b)

\* the value of a score that is a number: num / sqrt(na * nb) is 1, -1 or 0
IsOne(x) == ~x.nan /\ ~x.inf /\ x.num > 0 /\ x.num * x.num = x.na * x.nb
IsMinusOne(x) == ~x.nan /\ ~x.inf /\ x.num < 0 /\ x.num * x.num = x.na * x.nb
IsZero(x) == ~x.nan /\ ~x.inf /\ x.num = 0

\* the dot product of two vectors of equal length, element by element from
\* the front
RECURSIVE Dot(_, _)
Dot(x, y) == IF x = <<>> THEN 0 ELSE Head(x) * Head(y) + Dot(Tail(x), Tail(y))

\* C21: for vectors of equal length and norm other than 0, CosineSimilarity
\* is the dot product over the product of the Euclidean norms; it is 1 for a
\* vector and a positive multiple of it, -1 for a vector and its negation (or
\* a negative multiple), 0 for orthogonal vectors.
C21_CosineOfNonDegenerate ==
    (cout # NoEntry /\ Len(cin.a) = Len(cin.b) /\ Len(cin.a) > 0
        /\ ~ZeroNorm(cin.a) /\ ~ZeroNorm(cin.b)) =>
        /\ cout = [nan |-> FALSE, inf |-> FALSE, num |-> Dot(cin.a, cin.b),
                   na |-> Dot(cin.a, cin.a), nb |-> Dot(cin.b, cin.b)]
        /\ \A k \in 1..MaxElem :
            /\ cin.b = [i \in 1..Len(cin.a) |-> k * cin.a[i]] => IsOne(cout)
            /\ cin.b = [i \in 1..Len(cin.a) |-> (0 - k) * cin.a[i]] => IsMinusOne(cout)
        /\ Dot(cin.a, cin.b) = 0 => IsZero(cout)

\* C21 witness: the score of a two-element vector and its double is 1
C21_Witness ==
    /\ cout # NoEntry /\ IsOne(cout)
    /\ cin.a = <<1, 0 - 1>> /\ cin.b = <<2, 0 - 2>>

-----------------------------------------------------------------------------
(* Embedding search: sidecar files next to the journal entries.            *)

MaxSidecars == 12
SearchDefaultLimit == 10

\* the names ending in ".embedding" (strings.HasSuffix(path, ".embedding"))
EmbeddingNames ==
    {"T" \o ToString(s) \o "-000000-" \o ToString(h) \o ".embedding" :
        s \in 0..(SecsPerDay - 1), h \in 1..NumShort}

\* the sidecar files filepath.Walk finds under a root
SidecarFiles(root) ==
    {p \in DOMAIN fs : UnderRoot(p, root) /\ p[Len(p)] \in EmbeddingNames}

\* json.Unmarshal(data, &emb) succeeds
DecodesAsEmbedding(content) == "json" \in DOMAIN content

\* the section filter: some name of opts.Sections is a name of the sidecar
SectionsMatch(emb, opts) ==
    \/ Len(opts.Sections) = 0
    \/ \E i \in 1..Len(opts.Sections), j \in 1..Len(emb.Sections) :
            opts.Sections[i] = emb.Sections[j]

\* the results the walk of one root appends
RootResults(root, queryVec, opts) ==
    {[Score |-> CosineSimilarity(queryVec, fs[p].json.Vector), Path |-> fs[p].json.Path] :
        p \in {q \in SidecarFiles(root) :
                /\ Readable(fs[q])
                /\ DecodesAsEmbedding(fs[q])
                /\ SectionsMatch(fs[q].json, opts)}}

\* x > y on float64 values that are not NaN
Greater(x, y) ==
    IF x.num >= 0 /\ y.num < 0 THEN TRUE
    ELSE IF x.num < 0 /\ y.num >= 0 THEN FALSE
    ELSE IF x.num >= 0
         THEN x.num * x.num * y.na * y.nb > y.num * y.num * x.na * x.nb
         ELSE x.num * x.num * y.na * y.nb < y.num * y.num * x.na * x.nb

\* mutant: the sort puts the lowest score first
ScoreBefore_Lowest(x, y) == Greater(y.Score, x.Score)

\* the less function of the sort: results[i].Score > results[j].Score
ScoreBefore(x, y) == Greater(x.Score, y.Score)

\* sort.Slice(results, ...): the orders in which no result comes before one
\* that the less function puts before it
RECURSIVE ScoreOrders(_, _)
ScoreOrders(results, idx) ==
    IF idx = {} THEN {<<>>}
    ELSE LET first == {i \in idx : \A j \in idx : ~ScoreBefore(results[j], results[i])}
         IN  UNION {{<<results[i]>> \o rest : rest \in ScoreOrders(results, idx \ {i})} :
                        i \in first}

\* SearchWithEmbeddings for a query vector the embedder gave
SearchResults(roots, queryVec, opts) ==
    LET results == Concat([i \in 1..Len(roots) |-> SeqOf(RootResults(roots[i], queryVec, opts))])
        limit0 == IF opts.Limit <= 0 THEN SearchDefaultLimit ELSE opts.Limit
        limit == IF limit0 > Len(results) THEN Len(results) ELSE limit0
    IN  {SubSeq(s, 1, limit) : s \in ScoreOrders(results, 1..Len(results))}

\* the k-th entry indexed: user and project entries in turn, a new second
\* after the short identifiers are used up
IndexedEntry(k) ==
    [ID |-> [short |-> 1 + ((k \div 2) % NumShort), serial |-> k + 1],
     Sections |-> SectionsFor(IF k % 2 = 0 THEN "user" ELSE "project"),
     CreatedAt |-> now, FilePath |-> <<>>,
     Type |-> IF k % 2 = 0 THEN "user" ELSE "project"]

\* what the embedder gives for the k-th entry: vectors of different
\* directions, some from an embedder of another dimension
IndexedVector(k) ==
    IF k % 6 = 5 THEN <<1>> ELSE <<IF k % 2 = 0 THEN 1 ELSE 0 - 1, k \div 2>>

\* a root that does not exist
MissingRoot == Work \o <<"nonexistent">>

SearchQueries ==
    {[roots |-> r, queryVec |-> q, fails |-> f,
      opts |-> [Limit |-> l, Sections |-> s]] :
        r \in {<<userPath>>, <<projectPath>>, <<userPath, MissingRoot, projectPath>>},
        q \in {<<1, 0>>, <<0, 1>>}, f \in BOOLEAN,
        l \in {0 - 1, 0, 1, 3},
        s \in {<<>>, <<project_notes>>, <<user_context, world_knowledge>>}}

InitSearch ==
    /\ cwd = Work
    /\ server = NoServer
    /\ wizard = NoWizard
    /\ tz = 0
    /\ now = StartTime
    /\ fs = [p \in {} |-> OutsideContent]
    /\ serial = 0
    /\ written = [p \in {} |-> NoEntry]
    /\ res = NoResult
    /\ cin = NoEntry
    /\ cout = NoEntry
    /\ procs = NoWriters

\* WriteEmbedding(mdPath, embedder, sections) for the next entry
WriteEmbedding ==
    /\ res = NoResult
    /\ serial < MaxSidecars
    /\ LET entry == IndexedEntry(serial)
           mdPath == EntryPath(entry)
           content == EmbeddingContent(mdPath, IndexedVector(serial), entry.Sections)
       IN  /\ fs' = WithFile(EmbeddingPath(mdPath), content)
           /\ written' = Put(written, EmbeddingPath(mdPath), content.json)
    /\ serial' = serial + 1
    /\ now' = IF (serial + 1) % (2 * NumShort) = 0 THEN now + MicrosPerSec ELSE now
    /\ UNCHANGED <<procs, cwd, tz, res, cin, cout, wizard, server>>

\* SearchWithEmbeddings(embedder, roots, query, opts); the embedder gives the
\* query vector or fails
SearchOf(queries) ==
    /\ res = NoResult
    /\ \E q \in queries :
        IF q.fails
        THEN res' = [op |-> "Search", query |-> q, err |-> "EmbedError", results |-> <<>>]
        ELSE \E results \in SearchResults(q.roots, q.queryVec, q.opts) :
                res' = [op |-> "Search", query |-> q, err |-> "", results |-> results]
    /\ UNCHANGED <<procs, cwd, tz, now, fs, serial, written, cin, cout, wizard, server>>

SearchWithEmbeddings == SearchOf(SearchQueries)

NextSearch == WriteEmbedding \/ SearchWithEmbeddings \/ Return

SpecSearch == InitSearch /\ [][NextSearch]_vars

\* the sidecars written under the roots of a query that pass its section filter
Eligible(q) ==
    {p \in DOMAIN written :
        /\ \E i \in 1..Len(q.roots) : StrictlyBelow(p, q.roots[i])
        /\ \/ q.opts.Sections = <<>>
           \/ Range(q.opts.Sections) \cap Range(written[p].Sections) # {}}

\* C19: a search whose embedder gave a query vector returns no error (whether
\* or not all roots exist); the results are min(limit, n) of the n sidecars
\* under the roots that share a section name with a non-empty filter, with
\* limit 10 when opts.Limit <= 0; each carries the path and the score of its
\* sidecar; no result follows one of lower score and no sidecar left out
\* scores higher than a returned one.
C19_SearchRanksAndLimits ==
    (res.op = "Search" /\ ~res.query.fails) =>
        LET q == res.query
            limit == IF q.opts.Limit <= 0 THEN 10 ELSE q.opts.Limit
            score(p) == CosineSimilarity(q.queryVec, written[p].Vector)
            chosen == {p \in Eligible(q) :
                        \E i \in 1..Len(res.results) : res.results[i].Path = written[p].Path}
        IN  /\ res.err = ""
            /\ Len(res.results) = Min(limit, Cardinality(Eligible(q)))
            /\ Cardinality(chosen) = Len(res.results)
            /\ \A i \in 1..Len(res.results) :
                \E p \in chosen : res.results[i] = [Score |-> score(p), Path |-> written[p].Path]
            /\ \A i, j \in 1..Len(res.results) :
                i < j => ~Greater(res.results[j].Score, res.results[i].Score)
            /\ \A p \in Eligible(q) \ chosen : \A i \in 1..Len(res.results) :
                ~Greater(score(p), res.results[i].Score)

\* C19 witness: with more than ten sidecars under the roots, one of them
\* missing, a search without limit and filter returns ten results of
\* different scores
C19_Witness ==
    /\ res.op = "Search" /\ res.err = ""
    /\ res.query.opts.Limit = 0 /\ res.query.opts.Sections = <<>>
    /\ MissingRoot \in Range(res.query.roots)
    /\ Cardinality(Eligible(res.query)) > Len(res.results)
    /\ Len(res.results) = 10
    /\ Greater(res.results[1].Score, res.results[Len(res.results)].Score)

\* the journal entry files of the two roots
EntryFiles == {p \in DOMAIN fs : InsideRoots(p) /\ IsMdName(p[Len(p)])}

\* C22: every journal entry file has its embedding sidecar, next to it, with
\* the same base name and the suffix .embedding, and no sidecar is without
\* its entry.
C22_OneSidecarPerEntry ==
    /\ \A p \in EntryFiles : Exists(EmbeddingPath(p))
    /\ \A q \in {x \in DOMAIN fs : InsideRoots(x) /\ x[Len(x)] \in EmbeddingNames} :
            \E p \in EntryFiles : EmbeddingPath(p) = q

-----------------------------------------------------------------------------
(* WriteEmbedding, for any section map and an embedder that may fail.      *)

MaxSidecarWrites == 3

\* the orders in which a loop over a map can meet the keys in S
RECURSIVE Orders(_)
Orders(S) ==
    IF S = {} THEN {<<>>}
    ELSE UNION {{<<n>> \o rest : rest \in Orders(S \ {n})} : n \in S}

\* embedder.Embed(text): a vector that depends on the text
Embed(text) == <<Len(text), 1>>

\* the section maps handed in: texts that are empty, one line, or two lines
SidecarSections ==
    UNION {[S -> {<<>>, <<"a">>, <<"b", NL, "c">>}] :
            S \in {{feelings}, {feelings, project_notes}}}

\* the entry paths the sidecars are made for
SidecarTargets ==
    {root \o <<DateName(1), MdName("T0-000000", ToString(1))>> :
        root \in {userPath, projectPath}}

InitSidecar ==
    /\ cwd = Work
    /\ server = NoServer
    /\ wizard = NoWizard
    /\ tz = 0
    /\ now \in {StartTime, StartTime + MicrosPerSec}
    /\ fs = [p \in {} |-> OutsideContent]
    /\ serial = 0
    /\ written = [p \in {} |-> NoEntry]
    /\ res = NoResult
    /\ cin = NoEntry
    /\ cout = NoEntry
    /\ procs = NoWriters

\* WriteEmbedding(mdPath, embedder, sections): the loop over the map, Embed
\* (which may fail), the sidecar written next to mdPath
WriteEmbeddingOf ==
    /\ res = NoResult
    /\ serial < MaxSidecarWrites
    /\ serial' = serial + 1
    /\ \E mdPath \in SidecarTargets, sections \in SidecarSections, fails \in BOOLEAN :
        \E names \in Orders({n \in DOMAIN sections : sections[n] # <<>>}) :
            LET text == EmbeddedText(sections, names)
                emb == [Vector |-> Embed(text), Text |-> text, Sections |-> names,
                        Timestamp |-> now \div MicrosPerSec, Path |-> mdPath]
            IN  IF fails
                THEN /\ res' = [op |-> "WriteEmbedding", err |-> "EmbedError",
                                mdPath |-> mdPath, sections |-> sections]
                     /\ UNCHANGED <<fs, written>>
                ELSE /\ fs' = WithFile(EmbeddingPath(mdPath), [json |-> emb])
                     /\ written' = Put(written, EmbeddingPath(mdPath), emb)
                     /\ res' = [op |-> "WriteEmbedding", err |-> "",
                                mdPath |-> mdPath, sections |-> sections]
    /\ UNCHANGED <<procs, cwd, tz, now, cin, cout, wizard, server>>

NextSidecar == WriteEmbeddingOf \/ Return

SpecSidecar == InitSidecar /\ [][NextSidecar]_vars

\* the texts of a sequence of names, one after the other with an empty line
\* between two of them
RECURSIVE BlankLineJoined(_, _)
BlankLineJoined(sections, names) ==
    IF names = <<>> THEN <<>>
    ELSE IF Len(names) = 1 THEN sections[names[1]]
    ELSE sections[names[1]] \o <<NL, NL>> \o BlankLineJoined(sections, Tail(names))

\* C23: WriteEmbedding changes one file only, the one next to the entry with
\* .embedding for .md; it holds the names of the non-empty sections (each
\* once), their texts joined by blank lines, the embedder's vector for that
\* text, the time and the path.  When the embedder fails the error is returned
\* and no file is written or changed.
C23_WriteEmbeddingSidecar ==
    [][(res = NoResult /\ res' # NoResult) =>
        LET mdPath == res'.mdPath
            embPath == EmbeddingPath(mdPath)
            nonEmpty == {n \in DOMAIN res'.sections : res'.sections[n] # <<>>}
        IN  /\ SubSeq(embPath, 1, Len(embPath) - 1) = SubSeq(mdPath, 1, Len(mdPath) - 1)
            /\ embPath[Len(embPath)] \in EmbeddingNames
            /\ res'.err # "" => fs' = fs
            /\ res'.err = "" =>
                /\ DOMAIN fs' = DOMAIN fs \cup {embPath}
                /\ \A p \in DOMAIN fs \ {embPath} : fs'[p] = fs[p]
                /\ LET emb == fs'[embPath].json
                   IN  /\ Range(emb.Sections) = nonEmpty
                       /\ Len(emb.Sections) = Cardinality(nonEmpty)
                       /\ emb.Text = BlankLineJoined(res'.sections, emb.Sections)
                       /\ emb.Vector = Embed(emb.Text)
                       /\ emb.Timestamp = now \div MicrosPerSec
                       /\ emb.Path = mdPath]_vars

\* C23 witness: a sidecar written again for a map with an empty section and a
\* non-empty one, and then a call in which the embedder failed
C23_Witness ==
    /\ res.op = "WriteEmbedding" /\ res.err # ""
    /\ Exists(EmbeddingPath(res.mdPath))
    /\ fs[EmbeddingPath(res.mdPath)].json.Sections = <<project_notes>>
    /\ res.sections = [n \in {feelings, project_notes} |->
                        IF n = feelings THEN <<"a">> ELSE <<"b", NL, "c">>]

-----------------------------------------------------------------------------
(* Scans of stores in which files were damaged from outside.               *)

MaxDamaged == 2

\* a file no scan can use: it cannot be read, it has no metadata block or one
\* that is no YAML, its identifier or its timestamp does not parse, or (a
\* sidecar) it is no JSON
Damaged(content) ==
    \/ "unreadable" \in DOMAIN content
    \/ "badjson" \in DOMAIN content
    \/ /\ "has" \in DOMAIN content
       /\ \/ ~content.has
          \/ "yamlError" \in DOMAIN content
          \/ content.fm.ID = <<>>
          \/ "Date" \in DOMAIN content.fm /\ content.fm.Date = <<>>
          \/ "CreatedAt" \in DOMAIN content.fm /\ content.fm.CreatedAt = <<>>

\* what is left of the file at p when it is damaged
DamagedForms(p) ==
    IF p[Len(p)] \in EmbeddingNames
    THEN {[unreadable |-> TRUE], [badjson |-> TRUE]}
    ELSE {[unreadable |-> TRUE],
          [fs[p] EXCEPT !.has = FALSE],
          [has |-> TRUE, fm |-> fs[p].fm, body |-> fs[p].body, yamlError |-> TRUE],
          [fs[p] EXCEPT !.fm.ID = <<>>],
          IF UnderRoot(p, postsDir) THEN [fs[p] EXCEPT !.fm.CreatedAt = <<>>]
          ELSE [fs[p] EXCEPT !.fm.Date = <<>>]}

InitScan ==
    /\ cwd = Work
    /\ server = NoServer
    /\ wizard = NoWizard
    /\ tz = 0
    /\ now = StartTime
    /\ fs = [p \in {} |-> OutsideContent]
    /\ serial = 0
    /\ written = [p \in {} |-> NoEntry]
    /\ res = NoResult
    /\ cin = NoEntry
    /\ cout = NoEntry
    /\ procs = NoWriters

\* the writes of the three kinds of file, MaxPosts of them in all
ScanCreatePost == serial < MaxPosts /\ FeedCreatePost
ScanWriteEmbedding == serial < MaxPosts /\ WriteEmbedding

\* a file is damaged (an editor, a disk error, a change of permissions)
Corrupt ==
    /\ res = NoResult
    /\ Cardinality({p \in DOMAIN fs : Damaged(fs[p])}) < MaxDamaged
    /\ \E p \in {q \in DOMAIN fs : ~Damaged(fs[q])} :
        \E content \in DamagedForms(p) : fs' = WithFile(p, content)
    /\ UNCHANGED <<procs, cwd, tz, now, serial, written, res, cin, cout, wizard, server>>

ScanQueries == ListPostsOptions({0, 1}, {0, 1}, {""}, {""}, {<<>>})

ScanListPosts == ListPostsOf(ScanQueries)

ScanSearches ==
    {q \in SearchQueries : q.opts.Limit \in {0, 1} /\ q.opts.Sections = <<>> /\ Len(q.roots) > 1}

ScanSearch == SearchOf(ScanSearches)

NextScan ==
    \/ WriteEntry \/ ScanCreatePost \/ ScanWriteEmbedding \/ Corrupt
    \/ ListEntries \/ ScanListPosts \/ ScanSearch \/ Return

SpecScan == InitScan /\ [][NextScan]_vars

\* an entry and a post are in the stores
InitDecode ==
    /\ cwd = Work
    /\ server = NoServer
    /\ wizard = NoWizard
    /\ tz = 0
    /\ now = StartTime
    /\ serial = 2
    /\ \E type \in ToolTypes, h \in 1..NumShort, draft \in Drafts :
        LET entry == [ID |-> [short |-> h, serial |-> 1], Sections |-> SectionsFor(type),
                      CreatedAt |-> now, FilePath |-> <<>>, Type |-> type]
            post == NewSocialPost([short |-> h, serial |-> 2], draft.AuthorName,
                                  draft.Content, draft.Tags, NoParent)
        IN  /\ fs = [p \in {EntryPath(entry), PostPath(post)} |->
                        IF p = PostPath(post) THEN PostContent(post) ELSE EntryContent(entry)]
            /\ written = [p \in {EntryPath(entry), PostPath(post)} |->
                            IF p = PostPath(post) THEN post
                            ELSE [entry EXCEPT !.FilePath = EntryPath(entry)]]
    /\ res = NoResult
    /\ cin = NoEntry
    /\ cout = NoEntry
    /\ procs = NoWriters

\* parseSocialPost for a post file that can be read (as ListPosts and
\* MarkSynced call it)
DecodePost ==
    /\ res = NoResult
    /\ \E p \in {q \in PostFiles : Readable(fs[q])} :
        res' = [op |-> "DecodePost", path |-> p, result |-> parseSocialPost(fs[p])]
    /\ UNCHANGED <<procs, cwd, tz, now, fs, serial, written, cin, cout, wizard, server>>

NextDecode == Corrupt \/ ReadEntry \/ DecodePost \/ Return

SpecDecode == InitDecode /\ [][NextDecode]_vars

\* a file without a metadata block, or whose identifier or timestamp is not
\* one
Malformed(content) ==
    \/ ~content.has
    \/ Len(content.fm.ID) # 2
    \/ "Date" \in DOMAIN content.fm /\ content.fm.Date = <<>>
    \/ "CreatedAt" \in DOMAIN content.fm /\ content.fm.CreatedAt = <<>>

\* C29: the decoding of an entry file or post file that has no metadata
\* block, no valid identifier or no timestamp that parses fails; ReadEntry
\* returns the error and no entry.
C29_DecodingRejectsMalformed ==
    /\ (res.op = "ReadEntry" /\ res.result.opened # <<>> /\ Exists(res.result.opened[1])
            /\ Readable(fs[res.result.opened[1]]) /\ Malformed(fs[res.result.opened[1]])) =>
            /\ res.result.err = "InvalidFormat"
            /\ res.result.entry = NoEntry
            /\ parseJournalEntry(res.result.opened[1], fs[res.result.opened[1]])
                    = Failure("InvalidFormat")
    /\ (res.op = "DecodePost" /\ Malformed(fs[res.path])) =>
            /\ res.result.err \in {"NoFrontmatter", "InvalidUUID", "InvalidDate", "InvalidYAML"}
            /\ res.result.post = NoEntry

\* C29 witness: ReadEntry of an entry file whose date does not parse, next to
\* a post file whose identifier is no UUID
C29_Witness ==
    /\ res.op = "ReadEntry" /\ res.result.err = "InvalidFormat"
    /\ res.result.opened # <<>>
    /\ Exists(res.result.opened[1])
    /\ Readable(fs[res.result.opened[1]])
    /\ fs[res.result.opened[1]].has
    /\ fs[res.result.opened[1]].fm.ID # <<>>
    /\ fs[res.result.opened[1]].fm.Date = <<>>
    /\ \E p \in PostFiles : Readable(fs[p]) /\ fs[p].has /\ fs[p].fm.ID = <<>>

\* the records of the files that are not damaged, as they were written
Intact(files) == {written[p] : p \in {q \in files : ~Damaged(fs[q])}}

\* C11: with damaged files in the stores, ListEntries, ListPosts and
\* SearchWithEmbeddings return no error and the result they give for the files
\* that are not damaged alone: the records written there, newest (or best)
\* first, cut to the limit.
C11_ScansSkipDamagedFiles ==
    /\ res.op = "ListEntries" =>
        /\ res.err = ""
        /\ \E s \in SortOutcomes(SeqOf(Intact(
                    UNION {ScannedFiles(r, Cutoff(res.days)) :
                            r \in Range(SelectedRoots(res.entryType))}))) :
                res.entries = Truncated(s, res.limit)
    /\ res.op = "ListPosts" =>
        /\ res.err = ""
        /\ \E s \in SortOutcomes(SeqOf(Intact(PostFiles))) : res.posts = RefPage(s, res.opts)
    /\ (res.op = "Search" /\ ~res.query.fails) =>
        /\ res.err = ""
        /\ LET q == res.query
               found == {[Score |-> CosineSimilarity(q.queryVec, emb.Vector), Path |-> emb.Path] :
                            emb \in Intact(UNION {SidecarFiles(q.roots[i]) : i \in 1..Len(q.roots)})}
               limit == IF q.opts.Limit <= 0 THEN 10 ELSE q.opts.Limit
           IN  \E s \in ScoreOrders(SeqOf(found), 1..Cardinality(found)) :
                    res.results = SubSeq(s, 1, Min(limit, Len(s)))

\* C11 witness: a listing returns an entry from a root that holds a damaged file
C11_Witness ==
    /\ res.op = "ListEntries" /\ res.entryType = "user" /\ res.days = 0
    /\ Len(res.entries) > 0
    /\ \E p \in DOMAIN fs : StrictlyBelow(p, userPath) /\ IsMdName(p[Len(p)]) /\ Damaged(fs[p])

-----------------------------------------------------------------------------
(* The tools of the MCP server: a handler runs store operations, may call   *)
(* the remote API, and answers with a result that is an error or is not.    *)

MaxCalls == 3

\* the identity file of the social store
IdentityPath == SocialDataDir \o <<"_identity.yaml">>

\* mutant: no identity file is an error
GetIdentityResult_MissingIsError ==
    IF ~Exists(IdentityPath) \/ ~Readable(fs[IdentityPath])
    THEN [err |-> "NotFound", name |-> ""]
    ELSE [err |-> "", name |-> fs[IdentityPath].AgentName]

\* GetIdentity: the agent name of the identity file, the empty name when
\* there is no file
GetIdentityResult ==
    IF ~Exists(IdentityPath) THEN [err |-> "", name |-> ""]
    ELSE IF ~Readable(fs[IdentityPath]) THEN [err |-> "IOError", name |-> ""]
    ELSE [err |-> "", name |-> fs[IdentityPath].AgentName]

\* the names given to SetIdentity
AgentNames == {alice, bob, ""}

\* SetIdentity(name): the identity file is written, or the write fails
SetIdentity ==
    /\ res = NoResult
    /\ \E name \in AgentNames :
        \/ /\ fs' = WithFile(IdentityPath, [AgentName |-> name])
           /\ written' = Put(written, IdentityPath, name)
           /\ res' = [op |-> "SetIdentity", name |-> name, err |-> ""]
        \/ /\ res' = [op |-> "SetIdentity", name |-> name, err |-> "IOError"]
           /\ UNCHANGED <<fs, written>>
    /\ UNCHANGED <<procs, cwd, tz, now, serial, cin, cout, wizard, server>>

GetIdentity ==
    /\ res = NoResult
    /\ res' = [op |-> "GetIdentity", name |-> GetIdentityResult.name,
               err |-> GetIdentityResult.err]
    /\ UNCHANGED <<procs, cwd, tz, now, fs, serial, written, cin, cout, wizard, server>>

NextIdentity == SetIdentity \/ GetIdentity \/ CreatePost \/ Return

SpecIdentity == InitSocial /\ [][NextIdentity]_vars

\* C27: GetIdentity gives the empty name and no error as long as no
\* SetIdentity has written the identity file, and after that the name of the
\* last SetIdentity that succeeded; SetIdentity changes no file but the
\* identity file, which lies in the data directory and not among the posts.
C27_IdentityIsLastSet ==
    /\ [](res.op = "GetIdentity" =>
            /\ res.err = ""
            /\ res.name = (IF IdentityPath \in DOMAIN written THEN written[IdentityPath]
                           ELSE ""))
    /\ [](Len(IdentityPath) = Len(SocialDataDir) + 1 /\ UnderRoot(IdentityPath, SocialDataDir)
            /\ ~UnderRoot(IdentityPath, postsDir))
    /\ [][(res = NoResult /\ res' # NoResult /\ res'.op = "SetIdentity") =>
            /\ DOMAIN fs' \subseteq DOMAIN fs \cup {IdentityPath}
            /\ \A p \in DOMAIN fs \ {IdentityPath} : p \in DOMAIN fs' /\ fs'[p] = fs[p]
            /\ res'.err = "" => Exists(IdentityPath)' /\ fs'[IdentityPath].AgentName = res'.name
            /\ res'.err # "" => fs' = fs]_vars

\* C27 witness: the name read is the second one set, posts are in the store
C27_Witness ==
    /\ res.op = "GetIdentity" /\ res.name = bob
    /\ PostFiles # {}
    /\ \E p \in PostFiles : parseSocialPost(fs[p]).post.AuthorName = alice

\* the remote client of the server: none, or one whose call succeeds or fails
RemoteOutcomes == {"none", "ok", "fails"}

\* the result of a tool: failed names the store operations that returned an
\* error during the call, reports the ones whose failure the text tells of,
\* wrote the files the call has written
ToolResult(op, isError, text, failed, reports, remote, wrote) ==
    [op |-> op, isError |-> isError, text |-> text, failed |-> failed,
     reports |-> reports, remote |-> remote, wrote |-> wrote]

\* toolError(format, err) for the error of a store operation
toolError(op, text, failedOp, remote, wrote) ==
    ToolResult(op, TRUE, text, {failedOp}, {failedOp}, remote, wrote)

\* mutant: the failure of the remote call makes the result an error
LocalOnly_Escalated(op, text, wrote) == ToolResult(op, TRUE, text, {}, {}, "fails", wrote)

\* the result after local writes that succeeded and a remote call that failed
LocalOnly(op, text, wrote) == ToolResult(op, FALSE, text, {}, {}, "fails", wrote)

InitTools ==
    /\ cwd = Work
    /\ server = NoServer
    /\ wizard = NoWizard
    /\ tz = 0
    /\ now = MaxTime - MicrosPerSec
    /\ fs = [p \in {} |-> OutsideContent]
    /\ serial = 0
    /\ written = [p \in {} |-> NoEntry]
    /\ res = NoResult
    /\ cin = NoEntry
    /\ cout = NoEntry
    /\ procs = NoWriters

\* login: an empty agent_name is refused; SetIdentity writes the identity
\* file, or fails and leaves it
handleLogin ==
    /\ res = NoResult
    /\ \E name \in AgentNames :
        IF name = ""
        THEN /\ res' = ToolResult("login", TRUE, "agent_name is required", {}, {}, "none", {})
             /\ UNCHANGED <<fs, written>>
        ELSE \/ /\ fs' = WithFile(IdentityPath, [AgentName |-> name])
                /\ written' = Put(written, IdentityPath, name)
                /\ res' = ToolResult("login", FALSE, "Logged in", {}, {}, "none", {})
             \/ /\ res' = toolError("login", "failed to set identity", "SetIdentity",
                                     "none", {})
                /\ UNCHANGED <<fs, written>>
    /\ UNCHANGED <<procs, cwd, tz, now, serial, cin, cout, wizard, server>>

\* the identity file can no longer be read (a change of permissions)
LockIdentity ==
    /\ res = NoResult
    /\ Exists(IdentityPath)
    /\ Readable(fs[IdentityPath])
    /\ fs' = WithFile(IdentityPath, [unreadable |-> TRUE])
    /\ UNCHANGED <<procs, cwd, tz, now, serial, written, res, cin, cout, wizard, server>>

\* what create_post is called with: the drafts, and one without content
PostArgs == Drafts \cup {[AuthorName |-> "", Content |-> <<>>, Tags |-> <<>>]}

\* mutant: the post is made without the identity
NewPostOf_Anonymous(id, identity, args) ==
    NewSocialPost(id, args.AuthorName, args.Content, args.Tags, NoParent)

\* models.NewSocialPost(identity, args.Content, args.Tags, parentID)
NewPostOf(id, identity, args) ==
    NewSocialPost(id, identity, args.Content, args.Tags, NoParent)

\* create_post: content is required; GetIdentity, CreatePost, then with a remote client the remote
\* CreatePost and, when that went well, MarkSynced of the new post (whose walk
\* finds the one file with the new identifier, the file just written)
handleCreatePost ==
    /\ res = NoResult
    /\ serial < MaxCalls
    /\ \E id \in NewIDs, draft \in PostArgs, remote \in RemoteOutcomes,
          createFails \in BOOLEAN, markFails \in BOOLEAN :
        LET identity == GetIdentityResult
            post == NewPostOf(id, identity.name, draft)
            path == PostPath(post)
            call == [content |-> draft.Content]
        IN  IF draft.Content = <<>>
            THEN /\ res' = ToolResult("create_post", TRUE, "content is required", {}, {},
                                      remote, {}) @@ call
                 /\ UNCHANGED <<fs, written, serial>>
            ELSE IF identity.err # ""
            THEN /\ res' = toolError("create_post", "failed to get identity", "GetIdentity",
                                     remote, {}) @@ call
                 /\ UNCHANGED <<fs, written, serial>>
            ELSE IF identity.name = ""
            THEN /\ res' = ToolResult("create_post", TRUE, "not logged in", {}, {}, remote, {}) @@ call
                 /\ UNCHANGED <<fs, written, serial>>
            ELSE IF createFails
            THEN /\ res' = toolError("create_post", "failed to create post", "CreatePost",
                                     remote, {}) @@ call
                 /\ UNCHANGED <<fs, written, serial>>
            ELSE /\ serial' = serial + 1
                 /\ IF remote = "fails"
                    THEN /\ fs' = WithFile(path, PostContent(post))
                         /\ written' = Put(written, path, post)
                         /\ res' = LocalOnly("create_post",
                                             "Post created locally but remote sync failed",
                                             {path}) @@ call
                    ELSE IF remote = "ok" /\ ~markFails
                    THEN /\ fs' = WithFile(path, SyncedContent(PostContent(post)))
                         /\ written' = Put(written, path, [post EXCEPT !.Synced = TRUE])
                         /\ res' = ToolResult("create_post", FALSE, "Post created",
                                              {}, {}, remote, {path}) @@ call
                    ELSE /\ fs' = WithFile(path, PostContent(post))
                         /\ written' = Put(written, path, post)
                         /\ res' = ToolResult("create_post", FALSE, "Post created",
                                              IF remote = "ok" THEN {"MarkSynced"} ELSE {},
                                              {}, remote, {path}) @@ call
    /\ UNCHANGED <<procs, cwd, tz, now, cin, cout, wizard, server>>

\* the arguments of process_thoughts: a map of keys, canonical or not, to
\* texts, empty or not
ThoughtArgs ==
    UNION {[S -> {<<>>, <<"x">>}] :
            S \in SUBSET {feelings, project_notes, world_knowledge, <<"m", "o", "o", "d">>}}

\* mutant: world_knowledge is routed to the project entry too
IsProjectSection_World(key) == key \in {project_notes, world_knowledge}

\* the routing of a section by its name
IsProjectSection(key) == key = project_notes

\* mutant: the entries of a call are stored together or not at all
StoredTypes_AllOrNothing(types, failing) == IF failing \in types THEN {} ELSE types

\* the types of the entries stored when the handler returns, of the types it
\* has to write, when the WriteEntry of the type failing fails: the project
\* entry is written first, and the first failure ends the call
StoredTypes(types, failing) ==
    {ty \in types : failing # ty /\ ~(ty = "user" /\ failing = "project" /\ "project" \in types)}

\* process_thoughts: unknown keys and a call without text are refused; the
\* project sections go to a project entry, the others to a user entry, each
\* written with WriteEntry; then the remote call with all sections
handleProcessThoughts ==
    /\ res = NoResult
    /\ serial + 2 <= MaxCalls
    /\ \E args \in ThoughtArgs, shortP \in 1..NumShort, shortU \in 1..NumShort,
          remote \in RemoteOutcomes, failing \in ToolTypes \cup {"none"} :
        LET unknownKeys == {k \in DOMAIN args : ~IsValidSection(k)}
            allKeys == {k \in DOMAIN args : IsValidSection(k) /\ args[k] # <<>>}
            allSections == [k \in allKeys |-> args[k]]
            projectSections == [k \in {x \in allKeys : IsProjectSection(x)} |-> args[k]]
            userSections == [k \in {x \in allKeys : ~IsProjectSection(x)} |-> args[k]]
            types == {"project" : k \in DOMAIN projectSections}
                        \cup {"user" : k \in DOMAIN userSections}
            entryOf(type, sections, id) ==
                [ID |-> id, Sections |-> sections, CreatedAt |-> now,
                 FilePath |-> <<>>, Type |-> type]
            project == entryOf("project", projectSections,
                               [short |-> shortP, serial |-> serial + 1])
            user == entryOf("user", userSections, [short |-> shortU, serial |-> serial + 2])
            \* the entries WriteEntry has stored when the handler returns
            stored == {e \in {project, user} : e.Type \in StoredTypes(types, failing)}
            paths == {EntryPath(e) : e \in stored}
            call == [args |-> args, sent |-> <<>>]
        IN  IF unknownKeys # {} \/ allKeys = {}
            THEN /\ res' = ToolResult("process_thoughts", TRUE,
                                      IF unknownKeys # {} THEN "unknown section(s)"
                                      ELSE "at least one section is required",
                                      {}, {}, remote, {}) @@ call
                 /\ UNCHANGED <<fs, written, serial>>
            ELSE /\ fs' = [p \in DOMAIN fs \cup paths |->
                            IF p \in paths
                            THEN EntryContent(CHOOSE e \in stored : EntryPath(e) = p)
                            ELSE fs[p]]
                 /\ written' = [p \in DOMAIN written \cup paths |->
                                IF p \in paths
                                THEN LET e == CHOOSE x \in stored : EntryPath(x) = p
                                     IN  [e EXCEPT !.FilePath = p]
                                ELSE written[p]]
                 /\ serial' = serial + 2
                 /\ res' = IF failing \in types
                           THEN toolError("process_thoughts",
                                          IF failing = "project"
                                          THEN "failed to write project entry"
                                          ELSE "failed to write user entry",
                                          "WriteEntry", remote, paths) @@ call
                           ELSE IF remote = "fails"
                           THEN LocalOnly("process_thoughts",
                                          "Journal entry written, Warning: remote sync failed",
                                          paths)
                                    @@ [args |-> args, sent |-> <<allSections>>]
                           ELSE ToolResult("process_thoughts", FALSE, "Journal entry written",
                                           {}, {}, remote, paths)
                                    @@ [args |-> args,
                                        sent |-> IF remote = "ok" THEN <<allSections>>
                                                 ELSE <<>>]
    /\ UNCHANGED <<procs, cwd, tz, now, cin, cout, wizard, server>>

\* read_journal_entry: ReadEntry of the path given
handleReadJournalEntry ==
    /\ res = NoResult
    /\ \E path \in ReadInputs :
        res' = IF ReadEntryResult(path).err # ""
               THEN toolError("read_journal_entry", "failed to read entry", "ReadEntry",
                              "none", {})
               ELSE ToolResult("read_journal_entry", FALSE, "entry", {}, {}, "none", {})
    /\ UNCHANGED <<procs, cwd, tz, now, fs, serial, written, cin, cout, wizard, server>>

NextTools ==
    \/ Tick \/ handleLogin \/ LockIdentity \/ handleCreatePost \/ handleProcessThoughts
    \/ handleReadJournalEntry \/ Return

SpecTools == InitTools /\ [][NextTools]_vars

AllPosts == [Limit |-> 0, Offset |-> 0, AgentFilter |-> "", TagFilter |-> "", ThreadID |-> <<>>]

\* C12: when create_post or process_thoughts has written locally and the
\* remote call then fails, the result is no error and tells of the remote
\* failure, the files written hold the records written, a post with synced =
\* false, and the listings that follow return these records.
C12_RemoteFailureKeepsLocalWrite ==
    (res.op \in {"create_post", "process_thoughts"} /\ res.remote = "fails" /\ res.wrote # {}
        /\ res.failed = {}) =>
        /\ ~res.isError
        /\ res.text \in {"Post created locally but remote sync failed",
                         "Journal entry written, Warning: remote sync failed"}
        /\ \A p \in res.wrote :
            /\ Exists(p)
            /\ res.op = "create_post" =>
                /\ fs[p] = PostContent(written[p])
                /\ ~written[p].Synced
                /\ \A posts \in ListPostsResults(AllPosts) : written[p] \in Range(posts)
            /\ res.op = "process_thoughts" =>
                /\ fs[p] = EntryContent(written[p])
                /\ \A entries \in ListEntriesResults("both", 0, 0) : written[p] \in Range(entries)

\* C12 witness: process_thoughts wrote a project and a user entry and the
\* remote call failed, in a store that already holds a post kept after the
\* remote call for it failed
C12_Witness ==
    /\ res.op = "process_thoughts" /\ res.remote = "fails" /\ ~res.isError
    /\ Cardinality(res.wrote) = 2
    /\ \E p \in DOMAIN fs : UnderRoot(p, postsDir) /\ ~parseSocialPost(fs[p]).post.Synced

\* C13: every store operation that failed during a call of a tool is told of
\* in the result of the tool, which is then an error.
C13_FailuresAreReported ==
    (res.op \in {"login", "create_post", "process_thoughts", "read_journal_entry"}) =>
        /\ res.failed \subseteq res.reports
        /\ res.failed # {} => res.isError

\* the sections of the arguments that count: canonical name, text not empty
Counted(args) ==
    [k \in {x \in DOMAIN args :
                x \in {feelings, project_notes, user_context, technical_insights,
                       world_knowledge} /\ args[x] # <<>>} |-> args[k]]

\* C25: process_thoughts with a key that is no canonical section name, or
\* with no text in any section, returns an error, changes no file and sends
\* nothing to the remote; every journal entry it has written has canonical
\* section names only, at least one section, and no section without text.
C25_ProcessThoughtsValidates ==
    /\ [][(res = NoResult /\ res' # NoResult /\ res'.op = "process_thoughts"
            /\ (\/ \E k \in DOMAIN res'.args :
                        \A i \in 1..Len(ValidSections) : ValidSections[i] # k
                \/ \A k \in DOMAIN res'.args : res'.args[k] = <<>>)) =>
                /\ res'.isError
                /\ fs' = fs
                /\ res'.sent = <<>>]_vars
    /\ [](\A p \in {q \in DOMAIN written : InsideRoots(q)} :
            /\ DOMAIN written[p].Sections # {}
            /\ \A k \in DOMAIN written[p].Sections :
                /\ \E i \in 1..Len(ValidSections) : ValidSections[i] = k
                /\ written[p].Sections[k] # <<>>
            /\ Exists(p) /\ fs[p] = EntryContent(written[p]))

\* C25 witness: a call with a canonical section and an unknown key is refused,
\* in a store that holds a post
C25_Witness ==
    /\ res.op = "process_thoughts" /\ res.isError /\ res.text = "unknown section(s)"
    /\ res.args = [k \in {project_notes, <<"m", "o", "o", "d">>} |-> <<"x">>]
    /\ PostFiles # {}
    /\ EntryFiles = {}

C28_CreatePostNeedsContentAndIdentity ==
    /\ [][(res = NoResult /\ res' # NoResult /\ res'.op = "create_post"
            /\ (res'.content = <<>> \/ GetIdentityResult.name = "")) =>
            /\ res'.isError
            /\ fs' = fs]_vars
    /\ []((res.op = "create_post" /\ ~res.isError) =>
            /\ res.wrote # {}
            /\ IdentityPath \in DOMAIN written
            /\ \A p \in res.wrote :
                /\ p \in PostFiles
                /\ parseSocialPost(fs[p]).err = ""
                /\ parseSocialPost(fs[p]).post.AuthorName = written[IdentityPath]
                /\ parseSocialPost(fs[p]).post.AuthorName # "")

\* C28 witness: a post by bob, who logged in after alice had posted
C28_Witness ==
    /\ res.op = "create_post" /\ ~res.isError
    /\ \A p \in res.wrote : parseSocialPost(fs[p]).post.AuthorName = bob
    /\ \E p \in PostFiles : parseSocialPost(fs[p]).post.AuthorName = alice

\* C32: in the create_post flow a post file has synced = true only after the
\* remote CreatePost of that very post succeeded: a call with no remote or a
\* failed remote call leaves the post it wrote unsynced, and a file comes to
\* hold a synced post only in a call whose remote call succeeded and that
\* made the post the file holds.
C32_SyncedOnlyAfterRemoteSuccess ==
    /\ []((res.op = "create_post" /\ res.remote # "ok") =>
            \A p \in res.wrote : ~parseSocialPost(fs[p]).post.Synced)
    /\ [][\A p \in DOMAIN fs' :
            (/\ UnderRoot(p, postsDir)
             /\ parseSocialPost(fs'[p]).err = ""
             /\ parseSocialPost(fs'[p]).post.Synced) =>
                \/ p \in DOMAIN fs /\ fs[p] = fs'[p]
                \/ /\ res'.op = "create_post" /\ ~res'.isError
                   /\ res'.remote = "ok" /\ res'.failed = {}
                   /\ res'.wrote = {p}
                   /\ parseSocialPost(fs'[p]).post.ID.serial = serial'
                   /\ serial' = serial + 1]_vars

\* C32 witness: a post whose remote call succeeded is stored as synced, next
\* to a post kept unsynced after its remote call failed and one made with no
\* remote
C32_Witness ==
    /\ res.op = "create_post" /\ res.remote = "ok" /\ res.failed = {}
    /\ \A p \in res.wrote : parseSocialPost(fs[p]).post.Synced
    /\ Cardinality({p \in PostFiles : ~parseSocialPost(fs[p]).post.Synced}) = 2

\* C38: process_thoughts has no transaction over its two entries. When the
\* project entry is written and the write of the user entry fails, the call
\* is an error, the project entry is on disk and in the listings, and the
\* remote got nothing; when the arguments are refused or the first write
\* fails, no file has been written.
C38_NoTransactionAcrossEntries ==
    /\ [][(res = NoResult /\ res' # NoResult /\ res'.op = "process_thoughts"
            /\ res'.isError) =>
            /\ DOMAIN fs' = DOMAIN fs \cup res'.wrote
            /\ \A p \in DOMAIN fs \ res'.wrote : fs'[p] = fs[p]]_vars
    /\ []((res.op = "process_thoughts" /\ res.isError) =>
            LET all == Counted(res.args)
                secondFailed == /\ res.text = "failed to write user entry"
                                /\ project_notes \in DOMAIN all
            IN  /\ res.sent = <<>>
                /\ Cardinality(res.wrote) = (IF secondFailed THEN 1 ELSE 0)
                /\ \A p \in res.wrote :
                    /\ UnderRoot(p, projectPath)
                    /\ written[p].Type = "project"
                    /\ written[p].Sections = [k \in {project_notes} |-> res.args[k]]
                    /\ parseJournalEntry(p, fs[p]) = Success(written[p])
                    /\ \A entries \in ListEntriesResults("both", 0, 0) :
                            written[p] \in Range(entries))

\* C38 witness: the call had project notes and feelings, with a remote; the
\* write of the user entry failed and the project entry is stored
C38_Witness ==
    /\ res.op = "process_thoughts" /\ res.isError
    /\ res.text = "failed to write user entry"
    /\ res.remote = "ok" /\ res.sent = <<>>
    /\ Counted(res.args) = [k \in {feelings, project_notes} |-> <<"x">>]
    /\ \E p \in res.wrote : Exists(p) /\ written[p].Type = "project"

-----------------------------------------------------------------------------
(* Writers of different files at the same time: processes that call         *)
(* WriteEntry or CreatePost with no lock between them.                      *)

\* a process begins a WriteEntry or a CreatePost of a new record whose path
\* no other process writes
ConcurrentWrite ==
    /\ \E t \in Threads, id \in NewIDs :
        /\ procs[t].op = "none"
        /\ \/ \E type \in ToolTypes :
                LET entry == [ID |-> id, Sections |-> SectionsFor(type), CreatedAt |-> now,
                              FilePath |-> <<>>, Type |-> type]
                IN  /\ \A u \in Threads : procs[u].path # EntryPath(entry)
                    /\ Begin(t, "WriteEntry", WriteEntryWrite, EntryPath(entry),
                             EntryContent(entry))
           \/ \E draft \in Drafts :
                LET post == NewSocialPost(id, draft.AuthorName, draft.Content, draft.Tags,
                                          NoParent)
                IN  /\ \A u \in Threads : procs[u].path # PostPath(post)
                    /\ Begin(t, "CreatePost", CreatePostWrite, PostPath(post),
                             PostContent(post))
    /\ serial' = serial + 1
    /\ UNCHANGED <<cwd, tz, now, res, cin, cout, wizard, server>>

NextConcurrent == ConcurrentWrite \/ Stage \/ Publish

SpecConcurrent == InitAtomic /\ [][NextConcurrent]_vars

\* C30: when processes write records of different paths at the same time,
\* no write fails, a file found at the path of a record is the complete
\* content of that record, a write that has returned has left its file, and
\* the listings from then on return its record.
C30_DistinctPathsAreSafe ==
    \A t \in Threads :
        /\ procs[t].pc # "failed"
        /\ (procs[t].op # "none" /\ Exists(procs[t].path)) => fs[procs[t].path] = procs[t].data
        /\ procs[t].pc = "done" =>
            /\ Exists(procs[t].path)
            /\ procs[t].op = "WriteEntry" =>
                \A entries \in ListEntriesResults("both", 0, 0) :
                    \E i \in 1..Len(entries) :
                        /\ entries[i].FilePath = procs[t].path
                        /\ EntryContent(entries[i]) = procs[t].data
            /\ procs[t].op = "CreatePost" =>
                \A posts \in ListPostsResults(AllPosts) :
                    \E i \in 1..Len(posts) : PostContent(posts[i]) = procs[t].data

\* C30 witness: two posts of the same second, in the same directory, both
\* written, the one finished while the other was half staged
C30_Witness ==
    /\ \A t \in Threads : procs[t].op = "CreatePost" /\ procs[t].pc = "done"
    /\ Dir(procs["journal"].path) = Dir(procs["social"].path)
    /\ procs["journal"].path # procs["social"].path
    /\ Cardinality(PostFiles) = 2

-----------------------------------------------------------------------------
(* Listings of stores whose directories do not exist yet.                   *)

\* mutant: the listings without their os.Stat test
IsNotExist_Never(path) == FALSE

\* os.Stat(path) fails with an error that os.IsNotExist accepts
IsNotExist(path) == ~Exists(path) /\ ~IsDir(path)

\* the error of a scan that begins at dir: none when dir is missing (the scan
\* returns nil, nil) or is a directory, the error of os.ReadDir otherwise
ScanError(dir) == IF IsNotExist(dir) \/ IsDir(dir) THEN "" ELSE "IOError"

\* the type selectors handed to ListEntries: the three types, the empty
\* selector, and a word that is no type
AnySelector == ListTypes \cup {"", "x"}

\* ListEntries with its error: the first root whose scan fails ends the call
ListEntriesAny ==
    /\ res = NoResult
    /\ \E entryType \in AnySelector, limit \in {0, 1}, days \in {0, 1} :
        LET roots == SelectedRoots(entryType)
        IN  IF \E i \in 1..Len(roots) : ScanError(roots[i]) # ""
            THEN res' = [op |-> "ListEntries", entryType |-> entryType, limit |-> limit,
                         days |-> days, err |-> "IOError", entries |-> <<>>]
            ELSE \E entries \in ListEntriesResults(entryType, limit, days) :
                    res' = [op |-> "ListEntries", entryType |-> entryType, limit |-> limit,
                            days |-> days, err |-> "", entries |-> entries]
    /\ UNCHANGED <<procs, cwd, tz, now, fs, serial, written, cin, cout, wizard, server>>

\* ListPosts with its error
ListPostsAny ==
    /\ res = NoResult
    /\ \E opts \in ListPostsOptions({0, 1}, {0, 1}, {"", alice}, {"", go}, {<<>>}) :
        IF ScanError(postsDir) # ""
        THEN res' = [op |-> "ListPosts", opts |-> opts, err |-> "IOError", posts |-> <<>>]
        ELSE \E posts \in ListPostsResults(opts) :
                res' = [op |-> "ListPosts", opts |-> opts, err |-> "", posts |-> posts]
    /\ UNCHANGED <<procs, cwd, tz, now, fs, serial, written, cin, cout, wizard, server>>

NextMissing == WriteEntry \/ CreatePost \/ ListEntriesAny \/ ListPostsAny \/ Return

SpecMissing == Init /\ [][NextMissing]_vars

\* C31: ListEntries, for any selector, of roots none of which exists returns
\* no entry and no error; ListPosts of a data directory that has no posts
\* directory returns no post and no error.
C31_MissingRootsListEmpty ==
    /\ res.op = "ListEntries" =>
        LET roots == SelectedRoots(res.entryType)
        IN  (\A i \in 1..Len(roots) : ~Exists(roots[i]) /\ ~IsDir(roots[i]))
                => res.err = "" /\ res.entries = <<>>
    /\ (res.op = "ListPosts" /\ ~Exists(postsDir) /\ ~IsDir(postsDir))
        => res.err = "" /\ res.posts = <<>>

\* C31 witness: both roots are listed when neither exists, while the social
\* store beside them already holds a post
C31_Witness ==
    /\ res.op = "ListEntries" /\ res.entryType = "both"
    /\ ~IsDir(userPath) /\ ~IsDir(projectPath)
    /\ IsDir(postsDir)
    /\ res.err = "" /\ res.entries = <<>>

-----------------------------------------------------------------------------
(* MarkSynced in a store where several files hold the same post: files      *)
(* copied by hand inside the posts directory.                               *)

MaxCopies == 2

\* the names a copy may take: the other names of the same second, and a
\* name of the user's own
CopyNames(name) ==
    {n \in MdNames : FileRank(n)[1] = FileRank(name)[1] \/ n = "notes.md"}

\* a post file is copied, outside the program, to a free name beside it
CopyPost ==
    /\ res = NoResult
    /\ Cardinality(PostFiles \ DOMAIN written) < MaxCopies
    /\ \E p \in PostFiles :
        \E n \in CopyNames(p[Len(p)]) :
            /\ ~Exists(Dir(p) \o <<n>>)
            /\ fs' = WithFile(Dir(p) \o <<n>>, fs[p])
    /\ UNCHANGED <<procs, cwd, tz, now, serial, written, res, cin, cout, wizard, server>>

NextWalk == CreatePost \/ CopyPost \/ MarkSynced \/ Return

SpecWalk == InitSocial /\ [][NextWalk]_vars

\* C34: a call of MarkSynced changes at most one file, the first in the order
\* of the walk among those whose identifier matches, and makes or removes
\* none; the files that the walk would visit after that one are not read.
C34_MarkSyncedStopsAtFirstMatch ==
    [][(res = NoResult /\ res'.op = "MarkSynced") =>
        LET changed == {p \in DOMAIN fs : fs'[p] # fs[p]}
            matches == {p \in PostFiles : HasPostID(fs[p], res'.postID)}
        IN  /\ DOMAIN fs' = DOMAIN fs
            /\ Cardinality(changed) <= 1
            /\ \A p \in matches :
                (\A q \in matches \ {p} : WalkBefore(p, q)) =>
                    /\ changed \subseteq {p}
                    /\ p \in res'.read
                    /\ \A q \in PostFiles : WalkBefore(p, q) => q \notin res'.read]_vars

\* C34 witness: three files held the same unsynced post and MarkSynced has
\* set synced in one of them only
C34_Witness ==
    /\ res.op = "MarkSynced" /\ res.err = ""
    /\ Cardinality({p \in PostFiles : HasPostID(fs[p], res.postID)}) = 3
    /\ Cardinality({p \in PostFiles :
                        HasPostID(fs[p], res.postID) /\ parseSocialPost(fs[p]).post.Synced}) = 1
    /\ Cardinality(res.read) < Cardinality(PostFiles)

-----------------------------------------------------------------------------
(* The setup wizard (tui.SetupModel), a bubbletea model. The program hands  *)
(* Update one message at a time: a key, or the result of a validation call  *)
(* that a command runs on a thread of its own. A tea.Quit command ends the  *)
(* program once its message is handled; messages that arrive before that    *)
(* are still handed to Update.                                              *)

MaxInputLen == 1
MaxValidations == 3

StepAPIURL == "StepAPIURL"
StepTeamID == "StepTeamID"
StepAPIKey == "StepAPIKey"
StepValidating == "StepValidating"
StepDone == "StepDone"
StepFailed == "StepFailed"

\* int(m.step) for the steps that have an input, counted from 1
InputOf(step) == CASE step = StepAPIURL -> 1 [] step = StepTeamID -> 2 [] step = StepAPIKey -> 3

\* "https://botboard.biz/api/v1", the host and path as one symbol
DefaultAPIURL == <<"https://botboard.biz/api", "/", "v", "1">>

\* the keys of the user: Ctrl+C, Escape, Enter, and the runes typed
Runes == {"/", "r", "s", "q"}
Keys ==
    {[Type |-> ty, Rune |-> ""] : ty \in {"KeyCtrlC", "KeyEscape", "KeyEnter"}}
        \cup {[Type |-> "KeyRunes", Rune |-> c] : c \in Runes}

\* strings.TrimRight(val, "/")
RECURSIVE TrimRightSlash(_)
TrimRightSlash(val) ==
    IF val # <<>> /\ val[Len(val)] = "/" THEN TrimRightSlash(SubSeq(val, 1, Len(val) - 1))
    ELSE val

\* strings.TrimSuffix(val, "/v1")
TrimSuffixV1(val) ==
    IF HasSuffix(val, <<"/", "v", "1">>) THEN SubSeq(val, 1, Len(val) - 3) ELSE val

\* the value of the URL input after Enter in StepAPIURL
EnteredURL(val) == IF val = <<>> THEN DefaultAPIURL ELSE TrimSuffixV1(TrimRightSlash(val))

\* NewSetupModel(apiURL, teamID, apiKey); cancel is the number of the
\* validation call whose cancel function the holder keeps, 0 for nil
NewSetupModel(apiURL, teamID, apiKey) ==
    [step |-> StepAPIURL, inputs |-> <<apiURL, teamID, apiKey>>, validationErr |-> "",
     quitting |-> FALSE, cancel |-> 0]

\* mutant: the cancel function is kept in the copy of the model that
\* startValidation works on, not in the shared holder
startValidation_NoHolder(m, id) == m

\* startValidation: the holder takes the cancel function of the new context
startValidation(m, id) == [m EXCEPT !.cancel = id]

\* mutant: only the empty team ID keeps Enter from advancing
Blocked_TeamOnly(m) == m.step = StepTeamID /\ m.inputs[2] = <<>>

\* Enter does not advance on an empty team ID or API key
Blocked(m) ==
    \/ m.step = StepTeamID /\ m.inputs[2] = <<>>
    \/ m.step = StepAPIKey /\ m.inputs[3] = <<>>

\* updateInput(msg): the model and the command it returns; id numbers the
\* validation call that a new command would make
updateInput(m, key, id) ==
    IF key.Type = "KeyEnter"
    THEN LET m1 == IF m.step = StepAPIURL
                   THEN [m EXCEPT !.inputs[1] = EnteredURL(@)] ELSE m
         IN  IF Blocked(m1) THEN [m |-> m1, cmd |-> "none"]
             ELSE CASE m1.step = StepAPIURL ->
                            [m |-> [m1 EXCEPT !.step = StepTeamID], cmd |-> "blink"]
                    [] m1.step = StepTeamID ->
                            [m |-> [m1 EXCEPT !.step = StepAPIKey], cmd |-> "blink"]
                    [] m1.step = StepAPIKey ->
                            [m |-> startValidation([m1 EXCEPT !.step = StepValidating], id),
                             cmd |-> "validate"]
    ELSE IF key.Type = "KeyRunes"
    THEN [m |-> [m EXCEPT !.inputs[InputOf(m.step)] = Append(@, key.Rune)], cmd |-> "none"]
    ELSE [m |-> m, cmd |-> "none"]

\* updateFailed(msg)
updateFailed(m, key, id) ==
    IF key.Type = "KeyRunes" /\ key.Rune = "r"
    THEN [m |-> startValidation([m EXCEPT !.step = StepValidating, !.validationErr = ""], id),
          cmd |-> "validate"]
    ELSE IF key.Type = "KeyRunes" /\ key.Rune = "s"
    THEN [m |-> [m EXCEPT !.step = StepDone], cmd |-> "quit"]
    ELSE IF key.Type = "KeyRunes" /\ key.Rune = "q"
    THEN [m |-> [m EXCEPT !.quitting = TRUE], cmd |-> "quit"]
    ELSE [m |-> m, cmd |-> "none"]

\* Update for a tea.KeyMsg
updateKey(m, key, id) ==
    IF key.Type \in {"KeyCtrlC", "KeyEscape"}
    THEN [m |-> [m EXCEPT !.quitting = TRUE], cmd |-> "quit"]
    ELSE IF m.step \in {StepAPIURL, StepTeamID, StepAPIKey} THEN updateInput(m, key, id)
    ELSE IF m.step = StepFailed THEN updateFailed(m, key, id)
    ELSE [m |-> m, cmd |-> "none"]

\* mutant: the wizard is saved whenever it has reached StepDone
ShouldSave_StepOnly(m) == m.step = StepDone

ShouldSave(m) == m.step = StepDone /\ ~m.quitting

\* the values the wizard is opened with: nothing, or what was saved before
InitWizard ==
    /\ cwd = Home
    /\ server = NoServer
    /\ tz = 0
    /\ now = StartTime
    /\ fs = [p \in {} |-> OutsideContent]
    /\ serial = 0
    /\ written = [p \in {} |-> NoEntry]
    /\ res = NoResult
    /\ cin = NoEntry
    /\ cout = NoEntry
    /\ procs = NoWriters
    /\ \E apiURL \in {<<>>, <<"h", "/", "v", "1">>}, teamID \in {<<>>, <<"t">>},
          apiKey \in {<<>>, <<"k">>} :
        wizard = [m |-> NewSetupModel(apiURL, teamID, apiKey),
                  \* the validation calls started, in order
                  calls |-> <<>>,
                  \* a tea.Quit command has been returned; the program has ended
                  quit |-> FALSE, ended |-> FALSE,
                  \* history: the last message handed to Update, a bit that
                  \* every call of Update flips, whether the user has pressed
                  \* a key that cancels, and how StepDone was reached
                  msg |-> [kind |-> "none"], flip |-> FALSE, cancelled |-> FALSE,
                  doneBy |-> ""]

\* the validation calls whose result Update has not been handed yet
InFlight(w) == {i \in 1..Len(w.calls) : w.calls[i].pc # "delivered"}

\* the program hands a key to Update
UpdateKey ==
    /\ wizard # NoWizard
    /\ ~wizard.ended
    /\ \E key \in Keys :
        LET m == wizard.m
            r == updateKey(m, key, Len(wizard.calls) + 1)
            cancels == key.Type \in {"KeyCtrlC", "KeyEscape"} /\ m.cancel # 0
        IN  \* the bounds of the model: the length of an input, the number of calls
            /\ (key.Type = "KeyRunes" /\ m.step \in {StepAPIURL, StepTeamID, StepAPIKey})
                    => Len(m.inputs[InputOf(m.step)]) < MaxInputLen
            /\ r.cmd = "validate" => Len(wizard.calls) < MaxValidations
            /\ wizard' =
                [wizard EXCEPT
                    !.m = r.m,
                    !.calls =
                        IF r.cmd = "validate"
                        THEN Append(@, [pc |-> "calling", cancelled |-> FALSE, err |-> "",
                                        apiURL |-> r.m.inputs[1], teamID |-> r.m.inputs[2],
                                        apiKey |-> r.m.inputs[3]])
                        ELSE IF cancels
                        THEN [@ EXCEPT ![m.cancel].cancelled = TRUE]
                        ELSE @,
                    !.quit = @ \/ r.cmd = "quit",
                    !.msg = [kind |-> "key", key |-> key],
                    !.flip = ~@,
                    !.cancelled = @ \/ key.Type \in {"KeyCtrlC", "KeyEscape"}
                                    \/ (m.step = StepFailed /\ key.Type = "KeyRunes"
                                            /\ key.Rune = "q"),
                    !.doneBy = IF m.step = StepFailed /\ key.Type = "KeyRunes"
                                    /\ key.Rune = "s" THEN "save" ELSE @]
    /\ UNCHANGED <<procs, cwd, tz, now, fs, serial, written, res, cin, cout, server>>

\* the validation call returns on its thread: with the error of the cancelled
\* context if its context was cancelled while it ran, else with what the
\* server answered
ValidationReturns ==
    /\ wizard # NoWizard
    /\ \E i \in 1..Len(wizard.calls), err \in {"", "failed", "canceled"} :
        /\ wizard.calls[i].pc = "calling"
        /\ wizard.calls[i].cancelled <=> err = "canceled"
        /\ wizard' = [wizard EXCEPT !.calls[i].pc = "returned", !.calls[i].err = err]
    /\ UNCHANGED <<procs, cwd, tz, now, fs, serial, written, res, cin, cout, server>>

\* the program hands the validationResultMsg of a returned call to Update
UpdateValidationResult ==
    /\ wizard # NoWizard
    /\ ~wizard.ended
    /\ \E i \in 1..Len(wizard.calls) :
        /\ wizard.calls[i].pc = "returned"
        /\ wizard' =
            [wizard EXCEPT
                !.m = IF wizard.calls[i].err = ""
                      THEN [@ EXCEPT !.cancel = 0, !.step = StepDone]
                      ELSE [@ EXCEPT !.cancel = 0, !.validationErr = wizard.calls[i].err,
                                     !.step = StepFailed],
                !.calls[i].pc = "delivered",
                !.quit = @ \/ wizard.calls[i].err = "",
                !.msg = [kind |-> "result", err |-> wizard.calls[i].err],
                !.flip = ~@,
                !.doneBy = IF wizard.calls[i].err = "" THEN "validation" ELSE @]
    /\ UNCHANGED <<procs, cwd, tz, now, fs, serial, written, res, cin, cout, server>>

\* the program handles the message of tea.Quit and ends
Quit ==
    /\ wizard # NoWizard
    /\ wizard.quit /\ ~wizard.ended
    /\ wizard' = [wizard EXCEPT !.ended = TRUE]
    /\ UNCHANGED <<procs, cwd, tz, now, fs, serial, written, res, cin, cout, server>>

NextWizard == UpdateKey \/ ValidationReturns \/ UpdateValidationResult \/ Quit

SpecWizard == InitWizard /\ [][NextWizard]_vars

\* C35: ShouldSave is true exactly when the wizard is in StepDone, reached by
\* a validation without error or by 's' in StepFailed, and the user has not
\* pressed Ctrl+C or Escape, nor 'q' in StepFailed; quitting, once set, stays
\* set, and ShouldSave is false from then on whatever message follows.
C35_ShouldSaveUnlessCancelled ==
    /\ [](wizard.m.step = StepDone => wizard.doneBy \in {"validation", "save"})
    /\ [](ShouldSave(wizard.m) <=> (wizard.m.step = StepDone /\ ~wizard.cancelled))
    /\ [][wizard.m.quitting => (wizard'.m.quitting /\ ~ShouldSave(wizard'.m))]_vars

\* C35 witness: the program has ended in StepDone, which the result of a
\* validation that went well brought about after the user had pressed a key
\* that cancels; the wizard is not saved
C35_Witness ==
    /\ wizard.ended /\ wizard.m.step = StepDone /\ wizard.doneBy = "validation"
    /\ wizard.msg = [kind |-> "result", err |-> ""]
    /\ wizard.cancelled /\ wizard.m.quitting
    /\ ~ShouldSave(wizard.m)

\* C36: the step changes only from StepAPIURL to StepTeamID, from there to
\* StepAPIKey and from there to StepValidating, each on Enter; from
\* StepValidating to StepDone on a result without error and to StepFailed on
\* one with an error; from StepFailed to StepValidating on 'r' and to
\* StepDone on 's'. Enter on an empty team ID or API key leaves the step, so
\* that in StepValidating neither is empty, nor in any validation call; an
\* empty URL input is the default URL when StepAPIURL is left.
C36_StepsMoveForward ==
    /\ [](/\ wizard.m.step = StepValidating =>
                wizard.m.inputs[2] # <<>> /\ wizard.m.inputs[3] # <<>>
          /\ \A i \in 1..Len(wizard.calls) :
                wizard.calls[i].teamID # <<>> /\ wizard.calls[i].apiKey # <<>>)
    /\ [][wizard'.m.step # wizard.m.step =>
            LET from == wizard.m.step
                to == wizard'.m.step
                msg == wizard'.msg
                enter == msg.kind = "key" /\ msg.key.Type = "KeyEnter"
                rune(c) == msg.kind = "key" /\ msg.key.Type = "KeyRunes" /\ msg.key.Rune = c
            IN  \/ /\ from = StepAPIURL /\ to = StepTeamID /\ enter
                   /\ wizard.m.inputs[1] = <<>> => wizard'.m.inputs[1] = DefaultAPIURL
                \/ from = StepTeamID /\ to = StepAPIKey /\ enter /\ wizard.m.inputs[2] # <<>>
                \/ from = StepAPIKey /\ to = StepValidating /\ enter /\ wizard.m.inputs[3] # <<>>
                \/ from = StepValidating /\ to = StepDone /\ msg.kind = "result" /\ msg.err = ""
                \/ from = StepValidating /\ to = StepFailed /\ msg.kind = "result" /\ msg.err # ""
                \/ from = StepFailed /\ to = StepValidating /\ rune("r")
                \/ from = StepFailed /\ to = StepDone /\ rune("s")]_vars

\* C36 witness: the default URL was taken, the first validation failed, the
\* retry is running
C36_Witness ==
    /\ wizard.m.step = StepValidating
    /\ wizard.m.inputs[1] = DefaultAPIURL
    /\ Len(wizard.calls) = 2
    /\ wizard.calls[1].err = "failed" /\ wizard.calls[2].pc = "calling"

\* C37: at most one validation call is in flight, the one whose cancel
\* function the holder keeps; Update for Ctrl+C or Escape sets quitting and
\* cancels the context of the call in flight, and a call whose context was
\* cancelled while it ran returns with the error of the cancellation.
C37_CancelReachesTheOneValidation ==
    /\ [](/\ Cardinality(InFlight(wizard)) <= 1
          /\ \A i \in InFlight(wizard) : wizard.m.cancel = i
          /\ InFlight(wizard) # {} => wizard.m.step = StepValidating)
    /\ [][/\ (/\ wizard'.flip # wizard.flip
              /\ wizard'.msg.kind = "key"
              /\ wizard'.msg.key.Type \in {"KeyCtrlC", "KeyEscape"}) =>
                /\ wizard'.m.quitting
                /\ \A i \in InFlight(wizard) : wizard'.calls[i].cancelled
          /\ \A i \in 1..Len(wizard.calls) :
                (/\ wizard.calls[i].pc = "calling" /\ wizard.calls[i].cancelled
                 /\ wizard'.calls[i].pc = "returned") => wizard'.calls[i].err = "canceled"]_vars

\* C37 witness: Escape was pressed while the retry was running; the retry has
\* returned with the error of the cancellation, the first call was never
\* cancelled
C37_Witness ==
    /\ Len(wizard.calls) = 2
    /\ wizard.msg = [kind |-> "key", key |-> [Type |-> "KeyEscape", Rune |-> ""]]
    /\ wizard.m.quitting
    /\ ~wizard.calls[1].cancelled
    /\ wizard.calls[2].cancelled /\ wizard.calls[2].pc = "returned"
    /\ wizard.calls[2].err = "canceled"

-----------------------------------------------------------------------------
(* The remote client (storage.RemoteClient): each call makes one HTTP       *)
(* request. client.Do fails (the transport), or returns a response with a   *)
(* status and a body; a server that answers 2xx to a POST has stored what   *)
(* was sent.                                                                *)

MaxRemote == 2

\* the statuses a response may carry when client.Do returns it: client.Do
\* follows redirects, and returns a 3xx response it cannot or need not follow
Statuses == {200, 201, 204, 300, 304, 400, 401, 500}

\* what client.Do hands back
Responses ==
    {[transportFails |-> TRUE, status |-> 0, decodes |-> FALSE]}
        \cup {[transportFails |-> FALSE, status |-> s, decodes |-> d] :
                s \in Statuses, d \in BOOLEAN}

IsSuccessStatus(status) == status >= 200 /\ status <= 299

\* the error of a call that sends: the error of client.Do, or the error made
\* when resp.StatusCode >= 400
SendError(resp) ==
    IF resp.transportFails THEN "RemoteError"
    ELSE IF resp.status >= 400 THEN "RemoteError"
    ELSE ""

\* the error of a call that reads: as above, then the error of the JSON decoder
ReadError(resp) ==
    IF SendError(resp) # "" THEN SendError(resp)
    ELSE IF ~resp.decodes THEN "RemoteError"
    ELSE ""

\* remotePostPayload
PostPayload(post) == [Content |-> post.Content, AuthorName |-> post.AuthorName, Tags |-> post.Tags]

\* a remote API is configured and holds nothing yet
EmptyServer == [configured |-> TRUE, posts |-> <<>>, entries |-> <<>>]

InitRemote ==
    /\ cwd = Home
    /\ tz = 0
    /\ now = StartTime
    /\ fs = [p \in {} |-> OutsideContent]
    /\ serial = 0
    /\ written = [p \in {} |-> NoEntry]
    /\ res = NoResult
    /\ cin = NoEntry
    /\ cout = NoEntry
    /\ procs = NoWriters
    /\ wizard = NoWizard
    /\ server = EmptyServer

\* the result of a call of the client, with the response it got
RemoteResult(op, resp, err, got) ==
    [op |-> op, transportFails |-> resp.transportFails, status |-> resp.status,
     decodes |-> resp.decodes, err |-> err, got |-> got]

\* RemoteClient.CreatePost(post)
RemoteCreatePost ==
    /\ res = NoResult
    /\ \E draft \in Drafts, resp \in Responses :
        /\ (IsSuccessStatus(resp.status) /\ ~resp.transportFails) =>
                Len(server.posts) < MaxRemote
        /\ server' = IF IsSuccessStatus(resp.status) /\ ~resp.transportFails
                     THEN [server EXCEPT !.posts = Append(@, PostPayload(draft))]
                     ELSE server
        /\ res' = RemoteResult("CreatePost", resp, SendError(resp), <<>>)
    /\ UNCHANGED <<procs, cwd, tz, now, fs, serial, written, cin, cout, wizard>>

\* RemoteClient.CreateJournalEntry(sections, timestamp)
RemoteCreateJournalEntry ==
    /\ res = NoResult
    /\ \E type \in ToolTypes, resp \in Responses :
        /\ (IsSuccessStatus(resp.status) /\ ~resp.transportFails) =>
                Len(server.entries) < MaxRemote
        /\ server' = IF IsSuccessStatus(resp.status) /\ ~resp.transportFails
                     THEN [server EXCEPT !.entries = Append(@, SectionsFor(type))]
                     ELSE server
        /\ res' = RemoteResult("CreateJournalEntry", resp, SendError(resp), <<>>)
    /\ UNCHANGED <<procs, cwd, tz, now, fs, serial, written, cin, cout, wizard>>

\* RemoteClient.ReadPosts(opts)
RemoteReadPosts ==
    /\ res = NoResult
    /\ \E resp \in Responses :
        res' = RemoteResult("ReadPosts", resp, ReadError(resp),
                            IF ReadError(resp) = "" THEN server.posts ELSE <<>>)
    /\ UNCHANGED <<procs, cwd, tz, now, fs, serial, written, cin, cout, wizard, server>>

\* RemoteClient.ReadJournalEntries(limit)
RemoteReadJournalEntries ==
    /\ res = NoResult
    /\ \E resp \in Responses :
        res' = RemoteResult("ReadJournalEntries", resp, ReadError(resp),
                            IF ReadError(resp) = "" THEN server.entries ELSE <<>>)
    /\ UNCHANGED <<procs, cwd, tz, now, fs, serial, written, cin, cout, wizard, server>>

NextRemote ==
    \/ RemoteCreatePost \/ RemoteCreateJournalEntry \/ RemoteReadPosts
    \/ RemoteReadJournalEntries \/ Return

SpecRemote == InitRemote /\ [][NextRemote]_vars

\* C40: a call of the remote client returns an error when the transport
\* fails or the status of the response is not 2xx, and returns no error only
\* for a 2xx response.
C40_ErrorUnlessSuccessStatus ==
    res.op \in {"CreatePost", "CreateJournalEntry", "ReadPosts", "ReadJournalEntries"} =>
        /\ (res.transportFails \/ ~IsSuccessStatus(res.status)) => res.err # ""
        /\ res.err = "" => (~res.transportFails /\ IsSuccessStatus(res.status))

-----------------------------------------------------------------------------
(* The command line: pulse social login, pulse social post and pulse social *)
(* feed, each a process of its own over the same configuration.             *)

\* Config.HasRemote: the key, the team and the URL of the API are set
HasRemote == server.configured

InitCLI ==
    /\ cwd = Home
    /\ tz = 0
    /\ now = MaxTime - MicrosPerSec
    /\ fs = [p \in {} |-> OutsideContent]
    /\ serial = 0
    /\ written = [p \in {} |-> NoEntry]
    /\ res = NoResult
    /\ cin = NoEntry
    /\ cout = NoEntry
    /\ procs = NoWriters
    /\ wizard = NoWizard
    /\ server \in {NoServer, EmptyServer}

\* runSocialPost: GetIdentity, NewSocialPost, CreatePost in the local store
runSocialPost ==
    /\ res = NoResult
    /\ serial < MaxPosts
    /\ \E id \in NewIDs, draft \in Drafts, createFails \in BOOLEAN :
        LET identity == GetIdentityResult
            post == NewSocialPost(id, identity.name, draft.Content, draft.Tags, NoParent)
        IN  IF identity.err # ""
            THEN /\ res' = [op |-> "social post", err |-> "failed to get identity"]
                 /\ UNCHANGED <<fs, written, serial>>
            ELSE IF identity.name = ""
            THEN /\ res' = [op |-> "social post", err |-> "not logged in"]
                 /\ UNCHANGED <<fs, written, serial>>
            ELSE IF createFails
            THEN /\ res' = [op |-> "social post", err |-> "failed to create post"]
                 /\ UNCHANGED <<fs, written, serial>>
            ELSE /\ fs' = WithFile(PostPath(post), PostContent(post))
                 /\ written' = Put(written, PostPath(post), post)
                 /\ serial' = serial + 1
                 /\ res' = [op |-> "social post", err |-> "", post |-> post]
    /\ UNCHANGED <<procs, cwd, tz, now, cin, cout, wizard, server>>

\* runSocialFeed: the posts of the remote API when one is configured, else
\* the posts of the local store
runSocialFeed ==
    /\ res = NoResult
    /\ \E opts \in ListPostsOptions({1, DefaultLimit}, {0}, {"", alice}, {"", go}, {<<>>}) :
        IF HasRemote
        THEN \E resp \in Responses :
                res' = [op |-> "social feed", opts |-> opts, remote |-> TRUE,
                        err |-> ReadError(resp),
                        posts |-> IF ReadError(resp) = "" THEN server.posts ELSE <<>>]
        ELSE \E posts \in ListPostsResults(opts) :
                res' = [op |-> "social feed", opts |-> opts, remote |-> FALSE,
                        err |-> "", posts |-> posts]
    /\ UNCHANGED <<procs, cwd, tz, now, fs, serial, written, cin, cout, wizard, server>>

\* a post of another member of the team reaches the remote API
TeamPost ==
    /\ res = NoResult
    /\ HasRemote
    /\ Len(server.posts) < MaxRemote
    /\ \E draft \in Drafts : server' = [server EXCEPT !.posts = Append(@, PostPayload(draft))]
    /\ UNCHANGED <<procs, cwd, tz, now, fs, serial, written, res, cin, cout, wizard>>

NextCLI == SetIdentity \/ runSocialPost \/ runSocialFeed \/ TeamPost \/ Return

SpecCLI == InitCLI /\ [][NextCLI]_vars

\* C39: after pulse social post has succeeded, pulse social feed with no
\* filter and the default limit, when it succeeds, lists the post made last,
\* with a remote API configured or without.
C39_FeedListsOwnPost ==
    (/\ res.op = "social feed" /\ res.err = ""
     /\ res.opts.AgentFilter = "" /\ res.opts.TagFilter = ""
     /\ res.opts.Limit = DefaultLimit) =>
        \A p \in DOMAIN written :
            (UnderRoot(p, postsDir) /\ written[p].ID.serial = serial) =>
                \E i \in 1..Len(res.posts) :
                    /\ res.posts[i].AuthorName = written[p].AuthorName
                    /\ res.posts[i].Content = written[p].Content

=============================================================================
